---- MODULE Spec2Model ----
(***************************************************************************)
(* The tool-calling conversation orchestrator of jira-helper: one turn is  *)
(* handleMessageEvent -> processQuery -> prepareConversation ->            *)
(* getUserPersonalToken -> runConversationLoop (getMcpClient, the bounded  *)
(* model/tool round loop, the deferred cleanup) and the posting of the     *)
(* result.  The repository holds three versions of the tool client         *)
(* gateway; the handler is modelled with each of them (variable variant).  *)
(***************************************************************************)
EXTENDS Integers, Sequences, FiniteSets, TLC

\* ------------------------------------------------------------------ bounds
NumTasks == 2        \* goroutines that may hold a request at the same time
MaxTurns == 2        \* turns one task handles one after the other
MaxRequests == 2     \* requests Slack sends one after the other
MaxHistory == 3      \* entries of a thread history handed to createInitialMessages
MaxCalls == 2        \* tool calls carried by one model response
MaxCalled == 3       \* calls of runConversationLoop in SpecGateway, all tasks
MaxPrior == 20       \* tool calls of earlier rounds behind a window to trim
Margin == 20         \* text lengths tried on either side of the threshold
ShortLen == 100      \* length of a tool payload that needs no summary
LongLen == 5000      \* length of an over-long tool payload
NearLen == 39900     \* length of a tool payload that all but fills a message
TitleLen == 50       \* length of the mark and title of a tool result line
TicketLen == 18      \* length of the payload of the "show TICKET-1" scenario

\* ------------------------------------------------------- program constants
maxRounds == 20      \* runConversationLoop
maxMessages == 21    \* trimMessages: 1 system prompt + 20 recent messages
recentMessages == 20 \* trimMessages: messages[len(messages)-20:]
maxLen == 2000       \* summarizeIfTooLong: len(content) in bytes
maxMessageLength == 40000  \* shouldCreateNewMessage

Tasks == 1 .. NumTasks

\* The three gateways of the repository:
\*   "eager": new.go, the default client is created by NewSlackHandler;
\*   "lazy1": the first file of part_005, ensureDefaultMcpClient inlined;
\*   "lazy2": the second file of part_005, CreateMcpClient/initializeMcpClient.
Variants == {"eager", "lazy1", "lazy2"}

writableJiraTools ==
  << "jira_create_issue", "jira_batch_create_issues", "jira_update_issue",
     "jira_delete_issue", "jira_add_comment", "jira_add_worklog",
     "jira_link_to_epic", "jira_create_issue_link", "jira_remove_issue_link",
     "jira_transition_issue", "jira_create_sprint", "jira_update_sprint",
     "confluence_add_label", "confluence_create_page",
     "confluence_update_page", "confluence_delete_page" >>

\* slices.Contains
Contains(s, x) == \E i \in 1 .. Len(s) : s[i] = x

\* Tool names the tool backend lists that are not in writableJiraTools.
ReadOnlyTools == {"jira_get_issue", "jira_search"}

\* Tool names the model asks for in the turns of Spec.
LoopTools == {"jira_get_issue", "jira_create_issue"}

\* Acting users; "" is an event without a user identity.
UserIDs == {"", "U1", "U2"}

\* The credential store: U1 has stored a personal token, U2 has none.
StoredToken(u) == IF u = "U1" THEN "tok1" ELSE "absent"

Contents == {"", "text"}

VARIABLES
  variant,           \* which gateway the process runs
  alive,             \* FALSE once logger.Fatal has ended the process
  defaultMcpClient,  \* h.defaultMcpClient: 0 is nil, else a client id
  mcpInitOnce,       \* h.mcpInitOnce: "fresh", "running" or "done"
  mcpInitErr,        \* h.mcpInitErr: "nil" or the cached error
  defaultInits,      \* times the creation of the default client was started
  clients,           \* every MCP client created so far, by id
  pc,                \* position of each task
  turns,             \* turns each task has started
  userID,            \* acting user of the turn
  userToken,         \* personal token of the turn ("" is none)
  messages,          \* the message window of the turn
  currentRound,      \* runConversationLoop's currentRound
  response,          \* the last ChatWithTools response
  toolIdx,           \* index of the next tool call of response.ToolCalls
  mcpClient,         \* client returned by getMcpClient (0 is none)
  cleanup,           \* deferred cleanup: "none", "noop" or "close"
  result,            \* how the turn ended and what it returned
  posts,             \* messages posted to the thread in this turn, by kind
  calls,             \* external calls made in this turn, by kind
  narration,         \* the progress narration of the turn
  deadline,          \* the turn's context: "running" or "expired"
  errlog,            \* errors the turn has met and error records it has logged
  applied            \* a pure function applied on its own: input and output

serverVars == << variant, alive, defaultMcpClient, mcpInitOnce, mcpInitErr,
                defaultInits, clients >>
procVars == << variant, alive, defaultMcpClient, mcpInitOnce, mcpInitErr,
              defaultInits, clients, applied >>
turnVars == << userID, userToken, messages, currentRound, response, toolIdx,
               mcpClient, cleanup, result, posts, calls, narration, deadline,
               errlog >>
vars == << variant, alive, defaultMcpClient, mcpInitOnce, mcpInitErr,
           defaultInits, clients,
           pc, turns, userID, userToken, messages, currentRound, response,
           toolIdx, mcpClient, cleanup, result, posts, calls, narration,
           deadline, errlog, applied >>

\* ------------------------------------------------------------ data shapes
\* A text of a tool message or of the summarizer: where it comes from and
\* its len(); "" is EmptyText.
EmptyText == [kind |-> "empty", len |-> 0]
ErrorText == [kind |-> "error", len |-> ShortLen]
ToolText(n) == [kind |-> "result", len |-> n]
SummaryText == [kind |-> "summary", len |-> ShortLen]

\* A window entry: role "system", "user", "assistant" or "tool"; id is the
\* tool call id of an assistant tool-call message or of a tool message, 0
\* for plain messages.
Msg(role, id) == [role |-> role, id |-> id, text |-> EmptyText]

\* ChatRequestToolMessage{ToolCallID: id, Content: text}
ToolMsg(id, text) == [role |-> "tool", id |-> id, text |-> text]

\* A text is the sequence of its non-empty fragments; "" is << >>.
Str(c) == IF c = "" THEN << >> ELSE << c >>

NoResponse == [Content |-> "", ToolCalls |-> << >>, IsComplete |-> TRUE]
NoResult == [state |-> "none", text |-> << >>, err |-> "nil"]
NoPosts == [initial |-> 0, error |-> 0, denied |-> 0, warning |-> 0, answer |-> 0]
NoCalls == [list |-> 0, chat |-> 0, tool |-> 0, ids |-> 0, create |-> 0,
            aux |-> 0, early |-> 0]

\* No error met, no error record logged.
NoErrors == [errors |-> 0, logged |-> 0]

\* An error was met and a record was logged for it; an error was met and
\* nothing was logged.
Logged(e) == [errors |-> e.errors + 1, logged |-> e.logged + 1]
Dropped(e, n) == [e EXCEPT !.errors = @ + n]

\* No pure function is being applied on its own.
NoApplication == [fn |-> "none", in |-> << >>, out |-> << >>, done |-> FALSE, n |-> 0]

\* -------------------------------------------------------------- narration
\* A progress line: what it reports, the tool call (or round) it belongs to,
\* and its len().
Line(kind, id, len) == [kind |-> kind, id |-> id, len |-> len]

\* initialMessage of processQuery.
initialMessage == Line("initial", 0, ShortLen)

\* response.Content of a tool round, as a progress line.
ContentLine(round) == Line("content", round, ShortLen)

\* "Calling Tool <name>" with the printed arguments.
CallLine(toolCall) == Line("call", toolCall.ID, ShortLen)

\* createCollapsibleBlocks(title, formatCallToolResult(text), false) for a
\* text of one line: mark and title, then the text between ">_" and "_".
ResultLine(toolCall, text) == Line("result", toolCall.ID, TitleLen + 3 + text.len)

SumLen(ls) ==
  LET sum[i \in 0 .. Len(ls)] == IF i = 0 THEN 0 ELSE sum[i - 1] + ls[i].len
  IN  sum[Len(ls)]

\* len(strings.Join(lines, "\n\n"))
JoinLen(ls) == IF ls = << >> THEN 0 ELSE SumLen(ls) + 2 * (Len(ls) - 1)

\* A faulty ceiling test that asks for a new message every time.
shouldCreateNewMessageAlways(existingLines, newLine) == TRUE

\* shouldCreateNewMessage: the joined lines are longer than maxMessageLength.
shouldCreateNewMessage(existingLines, newLine) ==
  JoinLen(Append(existingLines, newLine)) > maxMessageLength

\* The narration of a turn: slackMessageLines, timestamp (0 is ""), the
\* progress messages the thread displays (by timestamp, each the lines it
\* shows) and the reports made so far.  A specification that is not about
\* the narration does not follow it: there it stays NoNarration.
NoNarration ==
  [followed |-> FALSE, lines |-> << >>, timestamp |-> 0, displayed |-> << >>,
   log |-> << >>, failed |-> 0, logged |-> 0]

\* Outcomes of a call of the chat API: delivered or failed.
Delivered == {TRUE, FALSE}

\* timestamp, _ = sendMarkdownMessage(text): api.PostMessage; the timestamp
\* of a post that failed is "", and the failure is logged.
sendMarkdownMessage(n, text, ok) ==
  IF ok THEN [n EXCEPT !.displayed = Append(@, text),
                       !.timestamp = Len(n.displayed) + 1]
  ELSE [n EXCEPT !.timestamp = 0, !.failed = @ + 1, !.logged = @ + 1]

\* An edit that stays silent about its failure.
updateMessageSilent(n, text, ok) ==
  IF ok /\ n.timestamp \in DOMAIN n.displayed
  THEN [n EXCEPT !.displayed[n.timestamp] = text]
  ELSE [n EXCEPT !.failed = @ + 1]

\* _ = updateMessage(timestamp, text): api.UpdateMessage on the message
\* timestamp names; a failure (an empty timestamp included) is logged and
\* nothing else: the error is not returned.
updateMessage(n, text, ok) ==
  IF ok /\ n.timestamp \in DOMAIN n.displayed
  THEN [n EXCEPT !.displayed[n.timestamp] = text]
  ELSE [n EXCEPT !.failed = @ + 1, !.logged = @ + 1]

\* One entry of the log of reports.
Report(op, line, text, target, before, after) ==
  [op |-> op, line |-> line, text |-> text, target |-> target,
   before |-> before, after |-> after]

\* processQuery: the initial message is posted, and is the first line.
startNarration(n, ok) ==
  [sendMarkdownMessage(n, << initialMessage >>, ok) EXCEPT
     !.lines = << initialMessage >>]

\* runConversationLoop reporting a content line or an invocation line:
\* append, then updateMessage with the joined lines.
reportLine(n, line, ok) ==
  LET ls == Append(n.lines, line)
      u == updateMessage(n, ls, ok)
  IN  [u EXCEPT !.lines = ls,
                !.log = Append(@, Report("edit", line, ls, n.timestamp, n.lines, ls))]

\* processToolResult reporting a result line: a new message with the line
\* alone when shouldCreateNewMessage, else append and updateMessage; then the
\* line is appended (handler.go:318) in either case.
reportToolResult(n, line, ok) ==
  IF shouldCreateNewMessage(n.lines, line)
  THEN LET p == sendMarkdownMessage(n, << line >>, ok)
       IN  [p EXCEPT !.lines = Append(<< >>, line),
                     !.log = Append(@, Report("post", line, << line >>, p.timestamp,
                                              n.lines, << line >>))]
  ELSE LET ls == Append(n.lines, line)
           u == updateMessage(n, ls, ok)
       IN  [u EXCEPT !.lines = Append(ls, line),
                     !.log = Append(@, Report("edit", line, ls, n.timestamp,
                                              n.lines, Append(ls, line)))]

\* HistoryMessage{Role, Content}
HistoryMessage(role, content) == [Role |-> role, Content |-> content]

\* Thread histories handed to processQuery.
Histories ==
  { << >>,
    << HistoryMessage("user", EmptyText), HistoryMessage("assistant", EmptyText) >> }

\* client.NewStdioMCPClient: a started, not yet initialized client.
NewClient(token) == [token |-> token, state |-> "created", closes |-> 0, late |-> FALSE]

\* mcpClient.Close() on client c.
Close(cs, c) == [cs EXCEPT ![c].state = "closed", ![c].closes = @ + 1]

\* mcpClient.CallTool on client c: a request sent on a closed client is late.
CallTool(cs, c) == [cs EXCEPT ![c].late = @ \/ cs[c].state = "closed"]

\* ---------------------------------------------------------- pure functions
\* createInitialMessages: system prompt, history (other roles dropped), query.
RECURSIVE HistoryMessages(_)
HistoryMessages(h) ==
  IF h = << >> THEN << >>
  ELSE (IF Head(h).Role \in {"user", "assistant"}
        THEN << [Msg(Head(h).Role, 0) EXCEPT !.text = Head(h).Content] >>
        ELSE << >>)
       \o HistoryMessages(Tail(h))

\* A faulty builder that puts the new query before the history.
createInitialMessagesQueryFirst(query, history) ==
  << Msg("system", 0), [Msg("user", 0) EXCEPT !.text = query] >>
    \o HistoryMessages(history)

createInitialMessages(query, history) ==
  << Msg("system", 0) >> \o HistoryMessages(history)
    \o << [Msg("user", 0) EXCEPT !.text = query] >>

\* A faulty trim that keeps one message less of the tail.
trimMessagesShort(m) ==
  IF Len(m) > maxMessages
  THEN << m[1] >> \o SubSeq(m, Len(m) - recentMessages + 2, Len(m))
  ELSE m

\* A faulty trim that keeps the latest maxMessages entries, the system
\* prompt not among them.
trimMessagesTailOnly(m) ==
  IF Len(m) > maxMessages
  THEN SubSeq(m, Len(m) - maxMessages + 1, Len(m))
  ELSE m

\* trimMessages: keep the system prompt and the 20 most recent messages.
trimMessages(m) ==
  IF Len(m) > maxMessages
  THEN << m[1] >> \o SubSeq(m, Len(m) - recentMessages + 1, Len(m))
  ELSE m

\* addToolCallToMessages
addToolCallToMessages(m, toolCall) == Append(m, Msg("assistant", toolCall.ID))

\* A faulty error path that goes on to the next tool call without leaving a
\* tool message for the failed one.
addToolMessageDropsErrors(m, toolCall, text) ==
  IF text = ErrorText THEN m ELSE Append(m, ToolMsg(toolCall.ID, text))

\* The tool message appended for a tool call (error text or result text).
addToolMessage(m, toolCall, text) == Append(m, ToolMsg(toolCall.ID, text))

\* The auxiliary model call, by what the service answers: an error, a
\* response without choices, an empty content, a text, or a choice without
\* content, which Chat dereferences (a nil pointer panic).
ChatOutcomes == {"error", "noChoices", "empty", "text", "nilContent"}

Chat(c) ==
  CASE c = "error"      -> [text |-> EmptyText, err |-> "chat", panic |-> FALSE]
    [] c = "noChoices"  -> [text |-> EmptyText, err |-> "nil", panic |-> FALSE]
    [] c = "empty"      -> [text |-> EmptyText, err |-> "nil", panic |-> FALSE]
    [] c = "text"       -> [text |-> SummaryText, err |-> "nil", panic |-> FALSE]
    [] c = "nilContent" -> [text |-> EmptyText, err |-> "nil", panic |-> TRUE]

\* A faulty threshold that already summarizes a text of exactly maxLen.
WithinLimitStrict(n) == n < maxLen

\* summarizeIfTooLong: len(content) <= maxLen
WithinLimit(n) == n <= maxLen

\* A faulty summarizer that hands back the empty model output when the
\* auxiliary call has failed.
summarizeIfTooLongNoFallback(content, c) ==
  IF WithinLimit(content.len)
  THEN [text |-> content, err |-> "nil", calls |-> 0, panic |-> FALSE]
  ELSE LET r == Chat(c) IN
       [text |-> r.text, err |-> r.err, calls |-> 1, panic |-> r.panic]

\* summarizeIfTooLong(content), with c the outcome of the auxiliary model
\* call should one be made: the text and error returned, the model calls
\* made, and whether the call panicked.
summarizeIfTooLong(content, c) ==
  IF WithinLimit(content.len)
  THEN [text |-> content, err |-> "nil", calls |-> 0, panic |-> FALSE]
  ELSE LET r == Chat(c) IN
       IF r.panic
       THEN [text |-> EmptyText, err |-> "nil", calls |-> 1, panic |-> TRUE]
       ELSE IF r.err # "nil" \/ r.text = EmptyText
            THEN [text |-> content, err |-> r.err, calls |-> 1, panic |-> FALSE]
            ELSE [text |-> r.text, err |-> "nil", calls |-> 1, panic |-> FALSE]

\* What one tool invocation can come to: CallTool fails, or it returns a
\* payload of one of the lengths in lens; chat is the outcome the auxiliary
\* model call has if the payload is summarized.
ToolOutcomes(lens, chats) ==
  { [call |-> "error", text |-> ErrorText, chat |-> c] : c \in chats }
  \cup
  { [call |-> "ok", text |-> ToolText(n), chat |-> c] : n \in lens, c \in chats }

\* Faulty permission checks: one that forgets the credential, one that lets
\* every call through.
PermissionDeniedNoCredential(name, token) == Contains(writableJiraTools, name)

PermissionDeniedNever(name, token) == FALSE

\* runConversationLoop's permission check of one requested tool call.
PermissionDenied(name, token) == Contains(writableJiraTools, name) /\ token = ""

\* handleMaxRoundsReached: the partial answer built from the last content.
PartialAnswer(lastResponse) ==
  << "Reached maximum conversation rounds. Last response: " >>
  \o Str(lastResponse) \o << ". \nDo you want me to continue?" >>

\* The model's possible answers to one ChatWithTools call.  ids is the number
\* of tool call ids the model has issued in this turn; names the tools it may
\* ask for; n the most tool calls one response carries.
ToolCallLists(names, n, ids) ==
  UNION { { [i \in 1 .. k |-> [ID |-> ids + i, Name |-> f[i]]] :
            f \in [1 .. k -> names] } : k \in 0 .. n }

Responses(names, n, ids) ==
  { [Content |-> c, ToolCalls |-> << >>, IsComplete |-> TRUE] : c \in Contents }
  \cup
  { [Content |-> c, ToolCalls |-> l, IsComplete |-> FALSE] :
      c \in Contents, l \in ToolCallLists(names, n, ids) }

\* --------------------------------------------------------- leaving a turn
\* sendMarkdownMessage posts nothing for an empty message.  handleMessageEvent
\* posts the response only when processQuery returned no error.
PostsAfter(p, notice, text, err) ==
  LET q == IF notice = "none" THEN p ELSE [p EXCEPT ![notice] = @ + 1]
  IN  IF err = "nil" /\ text # << >> THEN [q EXCEPT !.answer = @ + 1] ELSE q

\* The deferred cleanup() of runConversationLoop, on the clients cs.
RunCleanup(t, cs) ==
  clients' = IF cleanup[t] = "close" THEN Close(cs, mcpClient[t]) ELSE cs

\* HandleRequest logs the error handleMessageEvent returns ("failed to handle
\* message event"); a panic is no error value.
ReturnedError(e, err) == IF err \in {"nil", "panic"} THEN e ELSE Logged(e)

\* processQuery returns (text, err) to handleMessageEvent in state `state`,
\* after posting `notice`; deferred calls run, then the handler posts.  The
\* window and the loop position are locals that end with the turn.
ReturnAfter(t, cs, p, state, notice, text, err) ==
  /\ result' = [result EXCEPT ![t] = [state |-> state, text |-> text, err |-> err]]
  /\ errlog' = [errlog EXCEPT ![t] = ReturnedError(@, err)]
  /\ posts' = [posts EXCEPT ![t] = PostsAfter(p, notice, text, err)]
  /\ pc' = [pc EXCEPT ![t] = "done"]
  /\ messages' = [messages EXCEPT ![t] = << >>]
  /\ toolIdx' = [toolIdx EXCEPT ![t] = 0]
  /\ RunCleanup(t, cs)

Return(t, p, state, notice, text, err) ==
  ReturnAfter(t, clients, p, state, notice, text, err)

\* ctx.Err() != nil for the context handleMessageEvent hands to processQuery
\* (context.WithTimeout, 5 minutes): a call made with it fails at once.
Expired(t) == deadline[t] = "expired"

\* The narration of task t goes on as one of S, where it is followed.
Narrate(t, S) ==
  IF narration[t].followed
  THEN \E x \in S : narration' = [narration EXCEPT ![t] = x]
  ELSE UNCHANGED narration

\* ------------------------------------------------------------------- turn
\* The call of processQuery by handleMessageEvent: a new turn of task t for
\* acting user u.
enterProcessQuery(t) ==
  /\ alive
  /\ pc[t] \in {"idle", "done"}
  /\ turns[t] < MaxTurns
  /\ \E u \in UserIDs :
       userID' = [userID EXCEPT ![t] = u]
  /\ turns' = [turns EXCEPT ![t] = @ + 1]
  /\ pc' = [pc EXCEPT ![t] = "processQuery"]
  /\ userToken' = [userToken EXCEPT ![t] = ""]
  /\ messages' = [messages EXCEPT ![t] = << >>]
  /\ currentRound' = [currentRound EXCEPT ![t] = 0]
  /\ response' = [response EXCEPT ![t] = NoResponse]
  /\ toolIdx' = [toolIdx EXCEPT ![t] = 0]
  /\ mcpClient' = [mcpClient EXCEPT ![t] = 0]
  /\ cleanup' = [cleanup EXCEPT ![t] = "none"]
  /\ result' = [result EXCEPT ![t] = NoResult]
  /\ posts' = [posts EXCEPT ![t] = NoPosts]
  /\ calls' = [calls EXCEPT ![t] = NoCalls]
  /\ narration' = [narration EXCEPT ![t] = [NoNarration EXCEPT !.followed = narration[t].followed]]
  /\ deadline' = [deadline EXCEPT ![t] = "running"]
  /\ errlog' = [errlog EXCEPT ![t] = NoErrors]

\* handleMessageEvent for an event it accepts.
handleMessageEvent(t) ==
  /\ enterProcessQuery(t)
  /\ UNCHANGED procVars

\* processQuery, first part: the progress message and prepareConversation.
\* ListTools is called on h.defaultMcpClient; on a nil client the call
\* panics, and gin's Recovery ends the request without an answer.
prepareConversation(t) ==
  /\ alive
  /\ pc[t] = "processQuery"
  /\ Narrate(t, { startNarration(narration[t], ok) : ok \in Delivered })
  /\ LET p == [posts[t] EXCEPT !.initial = @ + 1] IN
     IF defaultMcpClient = 0
     THEN /\ Return(t, p, "Failed", "none", << >>, "panic")
          /\ calls' = [calls EXCEPT ![t].early = @ + 1]
     ELSE /\ calls' = [calls EXCEPT ![t].list = @ + 1,
                                    ![t].early = @ + IF clients[defaultMcpClient].state = "ready"
                                                     THEN 0 ELSE 1]
          /\ \/ Return(t, p, "Failed", "none", << >>, "listTools")
             \/ /\ ~Expired(t)
                /\ \E h \in Histories :
                     messages' = [messages EXCEPT ![t] = createInitialMessages(EmptyText, h)]
                /\ posts' = [posts EXCEPT ![t] = p]
                /\ pc' = [pc EXCEPT ![t] = "getToken"]
                /\ UNCHANGED << result, errlog, clients, toolIdx >>
  /\ UNCHANGED << deadline, applied, variant, alive, defaultMcpClient, mcpInitOnce, mcpInitErr,
                  defaultInits,
                  turns, userID, userToken, currentRound, response,
                  mcpClient, cleanup >>

\* processQuery, second part: getUserPersonalToken.  The store fails for a
\* user without a stored token, and may fail for any user.
getUserPersonalToken(t) ==
  /\ alive
  /\ pc[t] = "getToken"
  /\ \/ /\ userID[t] = "" \/ StoredToken(userID[t]) # "absent"
        /\ userToken' = [userToken EXCEPT ![t] =
             IF userID[t] = "" THEN "" ELSE StoredToken(userID[t])]
        /\ pc' = [pc EXCEPT ![t] = "getMcpClient"]
        /\ UNCHANGED << result, errlog, posts, clients, messages, toolIdx >>
     \/ /\ userID[t] # ""
        /\ Return(t, posts[t], "Failed", "error", << >>, "token")
        /\ UNCHANGED userToken
  /\ UNCHANGED << narration, deadline, applied, variant, alive, defaultMcpClient, mcpInitOnce, mcpInitErr,
                  defaultInits,
                  turns, userID, currentRound, response, mcpClient, cleanup,
                  calls >>

\* ---------------------------------------------------------------- gateway
\* A faulty gateway that hands out the default client with a closing cleanup.
DefaultCleanupCloses == "close"

\* The cleanup getMcpClient returns with the default client: func() {}.
DefaultCleanup == "noop"

\* A faulty gateway that hands out a per-user client with an empty cleanup.
UserCleanupEmpty == "noop"

\* The cleanup getMcpClient returns with a per-user client: mcpClient.Close().
UserCleanup == "close"

\* A faulty guard (a plain nil check in place of sync.Once) that lets a caller
\* in while the first one is still creating the client.
OnceMayRunUnguarded(once) == once \in {"fresh", "running"}

\* sync.Once.Do runs its function for the first caller only.
OnceMayRun(once) == once = "fresh"

\* sync.Once.Do returns to a caller once the function has run to its end.
OnceReturns(once) == once = "done"

\* A faulty initialization that is attempted again after a failure.
OnceAfterRunRetry(err) == IF err = "nil" THEN "done" ELSE "fresh"

\* The state of mcpInitOnce when the function given to Do has returned with
\* err stored in (or left out of) mcpInitErr.
OnceAfterRun(err) == "done"

\* runConversationLoop when getMcpClient failed with error e: error notice,
\* return.
getMcpClientFailed(t, e) ==
  /\ Return(t, posts[t], "Failed", "error", << >>, e)
  /\ UNCHANGED << narration, deadline, applied, variant, alive, defaultMcpClient, defaultInits, turns, userID,
                  userToken, currentRound, response, mcpClient, cleanup >>

\* getMcpClient("") of new.go: the client NewSlackHandler created.
getMcpClientEager(t) ==
  /\ alive
  /\ pc[t] = "getMcpClient"
  /\ userToken[t] = ""
  /\ variant = "eager"
  /\ mcpClient' = [mcpClient EXCEPT ![t] = defaultMcpClient]
  /\ cleanup' = [cleanup EXCEPT ![t] = DefaultCleanup]
  /\ pc' = [pc EXCEPT ![t] = "loop"]
  /\ UNCHANGED << narration, deadline, procVars, turns, userID, userToken, messages, currentRound,
                  response, toolIdx, result, errlog, posts, calls >>

\* ensureDefaultMcpClient: the first caller enters mcpInitOnce.Do.
ensureDefaultMcpClient(t) ==
  /\ alive
  /\ pc[t] = "getMcpClient"
  /\ userToken[t] = ""
  /\ variant # "eager"
  /\ OnceMayRun(mcpInitOnce)
  /\ mcpInitOnce' = "running"
  /\ defaultInits' = defaultInits + 1
  /\ pc' = [pc EXCEPT ![t] = "createDefault"]
  /\ UNCHANGED << narration, deadline, applied, variant, alive, defaultMcpClient, mcpInitErr, clients, turns,
                  turnVars >>

\* Inside Do: CreateMcpClient(h.defaultJiraToken) starts the subprocess or fails.
createDefaultMcpClient(t) ==
  /\ alive
  /\ pc[t] = "createDefault"
  /\ calls' = [calls EXCEPT ![t].create = @ + 1]
  /\ \/ /\ clients' = Append(clients, NewClient("default"))
        /\ mcpClient' = [mcpClient EXCEPT ![t] = Len(clients) + 1]
        /\ pc' = [pc EXCEPT ![t] = "initDefault"]
        /\ UNCHANGED << mcpInitOnce, mcpInitErr >>
     \/ /\ mcpInitErr' = "create"
        /\ mcpInitOnce' = OnceAfterRun("create")
        /\ pc' = [pc EXCEPT ![t] = "getMcpClient"]
        /\ UNCHANGED << clients, mcpClient >>
  /\ UNCHANGED << narration, deadline, applied, variant, alive, defaultMcpClient, defaultInits, turns, userID,
                  userToken, messages, currentRound, response, toolIdx, cleanup,
                  result, errlog, posts >>

\* Inside Do: the initialization handshake of the default client.  A failed
\* handshake is stored in mcpInitErr by lazy1; lazy2's initializeMcpClient
\* logs it with Fatal, which ends the process.
initializeDefaultMcpClient(t) ==
  /\ alive
  /\ pc[t] = "initDefault"
  /\ \/ /\ clients' = [clients EXCEPT ![mcpClient[t]].state = "ready"]
        /\ defaultMcpClient' = mcpClient[t]
        /\ mcpInitOnce' = OnceAfterRun("nil")
        /\ pc' = [pc EXCEPT ![t] = "getMcpClient"]
        /\ UNCHANGED << alive, mcpInitErr, errlog >>
     \/ /\ variant = "lazy1"
        /\ mcpInitErr' = "init"
        /\ mcpInitOnce' = OnceAfterRun("init")
        /\ pc' = [pc EXCEPT ![t] = "getMcpClient"]
        /\ UNCHANGED << alive, defaultMcpClient, clients, errlog >>
     \/ /\ variant = "lazy2"
        /\ alive' = FALSE
        /\ errlog' = [errlog EXCEPT ![t] = Logged(@)]
        /\ UNCHANGED << defaultMcpClient, mcpInitOnce, mcpInitErr, clients, pc >>
  /\ mcpClient' = [mcpClient EXCEPT ![t] = 0]
  /\ UNCHANGED << narration, deadline, applied, variant, defaultInits, turns, userID, userToken, messages,
                  currentRound, response, toolIdx, cleanup, result, posts, calls >>

\* ensureDefaultMcpClient returns h.mcpInitErr when Do returns; getMcpClient
\* hands out h.defaultMcpClient with the no-op cleanup, or the error.
getMcpClientLazy(t) ==
  /\ alive
  /\ pc[t] = "getMcpClient"
  /\ userToken[t] = ""
  /\ variant # "eager"
  /\ OnceReturns(mcpInitOnce)
  /\ IF mcpInitErr # "nil"
     THEN /\ getMcpClientFailed(t, mcpInitErr)
          /\ UNCHANGED << mcpInitOnce, mcpInitErr, calls >>
     ELSE /\ mcpClient' = [mcpClient EXCEPT ![t] = defaultMcpClient]
          /\ cleanup' = [cleanup EXCEPT ![t] = DefaultCleanup]
          /\ pc' = [pc EXCEPT ![t] = "loop"]
          /\ UNCHANGED << narration, deadline, procVars, turns, userID, userToken, messages,
                          currentRound, response, toolIdx, result, errlog, posts, calls >>

\* A faulty gateway that keeps per-user clients and hands out the one it
\* has for the token, if any.
UserClientPooled(cs, token) ==
  IF \E c \in DOMAIN cs : cs[c].token = token
  THEN CHOOSE c \in DOMAIN cs : cs[c].token = token
  ELSE Len(cs) + 1

\* The client getMcpClient(userToken) hands out: the one CreateMcpClient has
\* just made for this call.
UserClient(cs, token) == Len(cs) + 1

\* getMcpClient(userToken): CreateMcpClient for the user's token.
createUserMcpClient(t) ==
  /\ alive
  /\ pc[t] = "getMcpClient"
  /\ userToken[t] # ""
  /\ calls' = [calls EXCEPT ![t].create = @ + 1]
  /\ \/ /\ clients' = Append(clients, NewClient(userToken[t]))
        /\ mcpClient' = [mcpClient EXCEPT ![t] = UserClient(clients, userToken[t])]
        /\ pc' = [pc EXCEPT ![t] = "initUser"]
        /\ UNCHANGED << narration, deadline, applied, variant, alive, defaultMcpClient, defaultInits, turns,
                        userID, userToken, messages, currentRound, response,
                        toolIdx, cleanup, result, errlog, posts >>
     \/ getMcpClientFailed(t, "createUser")
  /\ UNCHANGED << mcpInitOnce, mcpInitErr >>

\* getMcpClient(userToken): the handshake of the user's client.  Every
\* version logs a failed handshake with Fatal, which ends the process.
initializeUserMcpClient(t) ==
  /\ alive
  /\ pc[t] = "initUser"
  /\ \/ /\ clients' = [clients EXCEPT ![mcpClient[t]].state = "ready"]
        /\ cleanup' = [cleanup EXCEPT ![t] = UserCleanup]
        /\ pc' = [pc EXCEPT ![t] = "loop"]
        /\ UNCHANGED << alive, errlog >>
     \/ /\ alive' = FALSE
        /\ errlog' = [errlog EXCEPT ![t] = Logged(@)]
        /\ UNCHANGED << clients, cleanup, pc >>
  /\ UNCHANGED << narration, deadline, applied, variant, defaultMcpClient, mcpInitOnce, mcpInitErr,
                  defaultInits, turns, userID, userToken, messages,
                  currentRound, response, toolIdx, mcpClient, result, posts,
                  calls >>

\* ------------------------------------------------------------------- loop
\* A faulty loop condition that gives up one round early.
LoopContinuesShort(round) == round < maxRounds - 1

\* The loop condition of runConversationLoop.
LoopContinues(round) == round < maxRounds

\* A faulty check that is off by one, so that the budget is never reported.
MaxRoundsReachedLate(round) == round > maxRounds

\* The check after currentRound++ that ends the turn with a partial answer.
MaxRoundsReached(round) == round >= maxRounds

\* A faulty loop head that hands the model the window as it has grown.
ModelWindowUntrimmed(m) == m

\* The window handed to ChatWithTools: messages = h.trimMessages(messages).
ModelWindow(m) == trimMessages(m)

\* A faulty completion test that takes any response with content for the
\* final answer.
CompletesOnContent(r) == r.Content # ""

\* if response.IsComplete
Completes(r) == r.IsComplete

\* One pass of the loop head.  When the loop condition fails the function
\* falls out of the loop and returns ("", nil).  Otherwise trimMessages, then
\* ChatWithTools, whose answer is drawn from R: the call fails, panics on a
\* choice without a message (client.go reads choice.Message.ToolCalls
\* unguarded), completes the turn, or hands back tool calls.
ChatWithTools(t, R) ==
  /\ alive
  /\ pc[t] = "loop"
  /\ IF ~LoopContinues(currentRound[t])
     THEN /\ Return(t, posts[t], "LoopExit", "none", << >>, "nil")
          /\ UNCHANGED << calls, response, narration >>
     ELSE /\ calls' = [calls EXCEPT ![t].chat = @ + 1]
          /\ \/ /\ Return(t, posts[t], "Failed", "error", << >>, "model")
                /\ UNCHANGED << response, narration >>
             \/ /\ ~Expired(t)
                /\ Return(t, posts[t], "Failed", "none", << >>, "panic")
                /\ UNCHANGED << response, narration >>
             \/ \E r \in R :
                  /\ ~Expired(t)
                  /\ response' = [response EXCEPT ![t] = r]
                  /\ IF Completes(r)
                     THEN /\ Return(t, posts[t], "Complete", "none",
                                    Str(r.Content), "nil")
                          /\ UNCHANGED narration
                     ELSE /\ messages' = [messages EXCEPT ![t] =
                                            ModelWindow(messages[t])]
                          /\ IF r.Content # ""
                             THEN Narrate(t, { reportLine(narration[t],
                                                  ContentLine(currentRound[t]), ok) :
                                               ok \in Delivered })
                             ELSE UNCHANGED narration
                          /\ toolIdx' = [toolIdx EXCEPT ![t] = 1]
                          /\ pc' = [pc EXCEPT ![t] = "tools"]
                          /\ UNCHANGED << result, errlog, posts, clients >>
  /\ UNCHANGED << deadline, applied, variant, alive, defaultMcpClient, mcpInitOnce, mcpInitErr,
                  defaultInits,
                  turns, userID, userToken, currentRound, mcpClient, cleanup >>

\* A faulty range loop that skips the tool call after the one it handled.
NextToolCallSkips(i) == i + 2

\* for _, toolCall := range response.ToolCalls: the index of the next call.
NextToolCall(i) == i + 1

\* executeToolWithClient and what follows it for a tool call that passed
\* the permission check: addToolCallToMessages, CallTool with an outcome
\* from O (outcome "timeout" is the error of a call on an expired context,
\* handled as any other error), then the tool message with the error text (and on to the next
\* call) or, in processToolResult, with the result text as
\* summarizeIfTooLong returns it; the error summarizeIfTooLong returns is
\* dropped.  A panic of the auxiliary call ends the turn.
executeToolWithClient(t, toolCall, O) ==
  \E o \in O :
    LET called == addToolCallToMessages(messages[t], toolCall)
        s == summarizeIfTooLong(o.text, o.chat)
        cs == CallTool(clients, mcpClient[t])
        summarized == o.call = "ok"
        invoked == { reportLine(narration[t], CallLine(toolCall), ok) :
                     ok \in Delivered }
    IN  /\ o.call = "timeout" <=> Expired(t)
        /\ calls' = [calls EXCEPT
               ![t].tool = @ + 1,
               ![t].ids = toolCall.ID,
               ![t].aux = @ + IF summarized THEN s.calls ELSE 0,
               ![t].early = @ + IF clients[mcpClient[t]].state = "created"
                                THEN 1 ELSE 0]
        /\ IF summarized /\ s.panic
           THEN /\ ReturnAfter(t, cs, posts[t], "Failed", "none", << >>, "panic")
                /\ Narrate(t, invoked)
           ELSE /\ messages' = [messages EXCEPT ![t] =
                     addToolMessage(called, toolCall,
                                    IF summarized THEN s.text ELSE o.text)]
                /\ Narrate(t, IF summarized
                               THEN { reportToolResult(n, ResultLine(toolCall, s.text), ok) :
                                      n \in invoked, ok \in Delivered }
                               ELSE invoked)
                /\ clients' = cs
                /\ toolIdx' = [toolIdx EXCEPT ![t] = NextToolCall(@)]
                /\ errlog' = [errlog EXCEPT ![t] =
                     Dropped(@, IF ~summarized \/ s.err # "nil" THEN 1 ELSE 0)]
                /\ UNCHANGED << pc, result, posts >>

\* A faulty tool loop that posts the notice for a denied call and goes on to
\* the next tool call (continue in place of return).
handleToolCallContinues(t, O) ==
  /\ alive
  /\ pc[t] = "tools"
  /\ toolIdx[t] <= Len(response[t].ToolCalls)
  /\ LET toolCall == response[t].ToolCalls[toolIdx[t]] IN
     IF PermissionDenied(toolCall.Name, userToken[t])
     THEN /\ posts' = [posts EXCEPT ![t].denied = @ + 1]
          /\ toolIdx' = [toolIdx EXCEPT ![t] = @ + 1]
          /\ UNCHANGED << calls, messages, clients, pc, result, errlog, narration >>
     ELSE executeToolWithClient(t, toolCall, O)
  /\ UNCHANGED << deadline, applied, variant, alive, defaultMcpClient, mcpInitOnce, mcpInitErr,
                  defaultInits,
                  turns, userID, userToken, currentRound, response, mcpClient,
                  cleanup >>

\* The body of `for _, toolCall := range response.ToolCalls` for one tool
\* call: the permission check, then the invocation and its tool message.
handleToolCall(t, O) ==
  /\ alive
  /\ pc[t] = "tools"
  /\ toolIdx[t] <= Len(response[t].ToolCalls)
  /\ LET toolCall == response[t].ToolCalls[toolIdx[t]] IN
     IF PermissionDenied(toolCall.Name, userToken[t])
     THEN /\ Return(t, posts[t], "Failed", "denied", << >>, "permission")
          /\ UNCHANGED << calls, narration >>
     ELSE executeToolWithClient(t, toolCall, O)
  /\ UNCHANGED << deadline, applied, variant, alive, defaultMcpClient, mcpInitOnce, mcpInitErr,
                  defaultInits,
                  turns, userID, userToken, currentRound, response, mcpClient,
                  cleanup >>

\* After the last tool call: currentRound++, then handleMaxRoundsReached
\* (warning line, partial answer) or the next pass of the loop, where the
\* response of this pass is out of scope.
endRound(t) ==
  /\ alive
  /\ pc[t] = "tools"
  /\ toolIdx[t] > Len(response[t].ToolCalls)
  /\ currentRound' = [currentRound EXCEPT ![t] = @ + 1]
  /\ IF MaxRoundsReached(currentRound[t] + 1)
     THEN /\ Return(t, posts[t], "MaxRoundsReached", "warning",
                    PartialAnswer(response[t].Content), "nil")
          /\ UNCHANGED response
     ELSE /\ pc' = [pc EXCEPT ![t] = "loop"]
          /\ response' = [response EXCEPT ![t] = NoResponse]
          /\ UNCHANGED << result, errlog, posts, clients, messages, toolIdx >>
  /\ UNCHANGED << narration, deadline, applied, variant, alive, defaultMcpClient, mcpInitOnce, mcpInitErr,
                  defaultInits,
                  turns, userID, userToken, mcpClient, cleanup, calls >>

\* ---------------------------------------------------------- specification
\* The process after NewSlackHandler: new.go has created and initialized the
\* default client; part_005 leaves it nil until it is first asked for.
InitProcess ==
  /\ variant \in Variants
  /\ alive = TRUE
  /\ mcpInitOnce = "fresh"
  /\ mcpInitErr = "nil"
  /\ defaultInits = 0
  /\ IF variant = "eager"
     THEN /\ clients = << [NewClient("default") EXCEPT !.state = "ready"] >>
          /\ defaultMcpClient = 1
     ELSE /\ clients = << >>
          /\ defaultMcpClient = 0

InitTasks ==
  /\ pc = [t \in Tasks |-> "idle"]
  /\ turns = [t \in Tasks |-> 0]
  /\ userID = [t \in Tasks |-> ""]
  /\ userToken = [t \in Tasks |-> ""]
  /\ messages = [t \in Tasks |-> << >>]
  /\ currentRound = [t \in Tasks |-> 0]
  /\ response = [t \in Tasks |-> NoResponse]
  /\ toolIdx = [t \in Tasks |-> 0]
  /\ mcpClient = [t \in Tasks |-> 0]
  /\ cleanup = [t \in Tasks |-> "none"]
  /\ result = [t \in Tasks |-> NoResult]
  /\ posts = [t \in Tasks |-> NoPosts]
  /\ calls = [t \in Tasks |-> NoCalls]
  /\ narration = [t \in Tasks |-> NoNarration]
  /\ deadline = [t \in Tasks |-> "running"]
  /\ errlog = [t \in Tasks |-> NoErrors]

Init == InitProcess /\ InitTasks /\ applied = NoApplication

\* The tool invocations of the turns of Spec: a short payload, or an
\* over-long one whose summary the model answers without content.
TurnOutcomes ==
  { [call |-> "ok", text |-> ToolText(ShortLen), chat |-> "text"],
    [call |-> "ok", text |-> ToolText(LongLen), chat |-> "nilContent"] }

\* Spec: whole turns, handled one at a time (a Lambda instance serves one
\* request at a time), each with the full round budget.  Such a turn reaches
\* getMcpClient only where NewSlackHandler has set h.defaultMcpClient.
Next ==
  \/ handleMessageEvent(1)
  \/ prepareConversation(1)
  \/ getUserPersonalToken(1)
  \/ getMcpClientEager(1)
  \/ createUserMcpClient(1)
  \/ initializeUserMcpClient(1)
  \/ ChatWithTools(1, Responses(LoopTools, MaxCalls, calls[1].ids))
  \/ handleToolCall(1, TurnOutcomes)
  \/ endRound(1)

Spec == Init /\ [][Next]_vars

\* FairSpec: the Go runtime keeps running a request's goroutine, so a step
\* that stays possible is taken.
FairSpec == Spec /\ WF_vars(Next)

\* --------------------------------------------------- concurrent gateway
\* Calls of runConversationLoop so far by tasks 1 .. n.
RECURSIVE Called(_)
Called(n) == IF n = 0 THEN 0 ELSE turns[n] + Called(n - 1)

\* runConversationLoop entered by task t with the window and the token
\* processQuery hands it, as after a prepareConversation that has listed the
\* tools.
runConversationLoop(t) ==
  /\ alive
  /\ pc[t] \in {"idle", "done"}
  /\ turns[t] < MaxTurns
  /\ Called(NumTasks) < MaxCalled
  /\ \E u \in {"", "U1"} :
       /\ userID' = [userID EXCEPT ![t] = u]
       /\ userToken' = [userToken EXCEPT ![t] = IF u = "" THEN "" ELSE StoredToken(u)]
  /\ turns' = [turns EXCEPT ![t] = @ + 1]
  /\ pc' = [pc EXCEPT ![t] = "getMcpClient"]
  /\ messages' = [messages EXCEPT ![t] = createInitialMessages(EmptyText, << >>)]
  /\ currentRound' = [currentRound EXCEPT ![t] = 0]
  /\ response' = [response EXCEPT ![t] = NoResponse]
  /\ toolIdx' = [toolIdx EXCEPT ![t] = 0]
  /\ mcpClient' = [mcpClient EXCEPT ![t] = 0]
  /\ cleanup' = [cleanup EXCEPT ![t] = "none"]
  /\ result' = [result EXCEPT ![t] = NoResult]
  /\ posts' = [posts EXCEPT ![t] = [NoPosts EXCEPT !.initial = 1]]
  /\ calls' = [calls EXCEPT ![t] = [NoCalls EXCEPT !.list = 1]]
  /\ errlog' = [errlog EXCEPT ![t] = NoErrors]
  /\ UNCHANGED << procVars, narration, deadline >>

\* The model's answers in the turns of SpecGateway: a completion.
GatewayResponses ==
  { [Content |-> "text", ToolCalls |-> << >>, IsComplete |-> TRUE] }

\* SpecGateway: NumTasks goroutines of one process call runConversationLoop
\* concurrently, under each of the three gateways.
NextGateway ==
  \E t \in Tasks :
    \/ runConversationLoop(t)
    \/ getMcpClientEager(t)
    \/ ensureDefaultMcpClient(t)
    \/ createDefaultMcpClient(t)
    \/ initializeDefaultMcpClient(t)
    \/ getMcpClientLazy(t)
    \/ createUserMcpClient(t)
    \/ initializeUserMcpClient(t)
    \/ ChatWithTools(t, GatewayResponses)

SpecGateway == Init /\ [][NextGateway]_vars

\* ------------------------------------------------------ permission gate
\* Every tool name the gate is asked about: the sixteen writable names and
\* the read-only ones.
GateNames == { writableJiraTools[i] : i \in DOMAIN writableJiraTools } \cup ReadOnlyTools

\* SpecGate starts where ChatWithTools has just handed back the first response
\* of a turn, with one to MaxCalls tool calls over GateNames, for a turn
\* without a token (default client) and a turn with one (per-user client).
InitGate ==
  /\ variant = "eager"
  /\ alive = TRUE
  /\ mcpInitOnce = "fresh"
  /\ mcpInitErr = "nil"
  /\ defaultInits = 0
  /\ applied = NoApplication
  /\ narration = [t \in Tasks |-> NoNarration]
  /\ deadline = [t \in Tasks |-> "running"]
  /\ errlog = [t \in Tasks |-> NoErrors]
  /\ defaultMcpClient = 1
  /\ pc = [t \in Tasks |-> IF t = 1 THEN "tools" ELSE "idle"]
  /\ turns = [t \in Tasks |-> IF t = 1 THEN 1 ELSE 0]
  /\ currentRound = [t \in Tasks |-> 0]
  /\ result = [t \in Tasks |-> NoResult]
  /\ \E u \in {"", "U1"}, h \in Histories :
       /\ userID = [t \in Tasks |-> IF t = 1 THEN u ELSE ""]
       /\ userToken = [t \in Tasks |-> IF t = 1 /\ u # "" THEN StoredToken(u) ELSE ""]
       /\ messages = [t \in Tasks |-> IF t = 1 THEN createInitialMessages(EmptyText, h) ELSE << >>]
       /\ clients = << [NewClient("default") EXCEPT !.state = "ready"] >>
                    \o (IF u = "" THEN << >>
                        ELSE << [NewClient(StoredToken(u)) EXCEPT !.state = "ready"] >>)
       /\ mcpClient = [t \in Tasks |-> IF t # 1 THEN 0 ELSE IF u = "" THEN 1 ELSE 2]
       /\ cleanup = [t \in Tasks |-> IF t # 1 THEN "none"
                                     ELSE IF u = "" THEN DefaultCleanup ELSE UserCleanup]
       /\ calls = [t \in Tasks |-> IF t # 1 THEN NoCalls
                     ELSE [NoCalls EXCEPT !.list = 1, !.chat = 1,
                                          !.create = IF u = "" THEN 0 ELSE 1]]
  /\ posts = [t \in Tasks |-> IF t = 1 THEN [NoPosts EXCEPT !.initial = 1] ELSE NoPosts]
  /\ toolIdx = [t \in Tasks |-> IF t = 1 THEN 1 ELSE 0]
  /\ \E l \in ToolCallLists(GateNames, MaxCalls, 0) \ { << >> } :
       response = [t \in Tasks |-> IF t = 1
                     THEN [Content |-> "text", ToolCalls |-> l, IsComplete |-> FALSE]
                     ELSE NoResponse]

\* The tool invocations of SpecGate: a failure or a short payload.
GateOutcomes == ToolOutcomes({ShortLen}, {"text"})

NextGate ==
  \/ handleToolCall(1, GateOutcomes)
  \/ endRound(1)

SpecGate == InitGate /\ [][NextGate]_vars

\* ------------------------------------------------------------ tool rounds
\* The invocation and tool message of the tool calls a .. b of earlier
\* rounds, each with a short result.
RECURSIVE Pairs(_, _)
Pairs(a, b) ==
  IF a > b THEN << >>
  ELSE << Msg("assistant", a), ToolMsg(a, ToolText(ShortLen)) >> \o Pairs(a + 1, b)

\* A turn where ChatWithTools has just handed back a response with one to
\* MaxCalls calls of a read-only tool, in the first round of a turn or in its
\* last one (after maxRounds - 1 rounds of one tool call each), for a turn on
\* the default client and a turn on a per-user client.
InitRound ==
  /\ variant = "eager"
  /\ alive = TRUE
  /\ mcpInitOnce = "fresh"
  /\ mcpInitErr = "nil"
  /\ defaultInits = 0
  /\ applied = NoApplication
  /\ deadline = [t \in Tasks |-> "running"]
  /\ errlog = [t \in Tasks |-> NoErrors]
  /\ defaultMcpClient = 1
  /\ pc = [t \in Tasks |-> IF t = 1 THEN "tools" ELSE "idle"]
  /\ turns = [t \in Tasks |-> IF t = 1 THEN 1 ELSE 0]
  /\ result = [t \in Tasks |-> NoResult]
  /\ posts = [t \in Tasks |-> IF t = 1 THEN [NoPosts EXCEPT !.initial = 1] ELSE NoPosts]
  /\ toolIdx = [t \in Tasks |-> IF t = 1 THEN 1 ELSE 0]
  /\ \E u \in {"", "U1"}, r \in {0, maxRounds - 1} :
       /\ userID = [t \in Tasks |-> IF t = 1 THEN u ELSE ""]
       /\ userToken = [t \in Tasks |-> IF t = 1 /\ u # "" THEN StoredToken(u) ELSE ""]
       /\ currentRound = [t \in Tasks |-> IF t = 1 THEN r ELSE 0]
       /\ messages = [t \in Tasks |-> IF t = 1
                        THEN trimMessages(createInitialMessages(EmptyText, << >>) \o Pairs(1, r))
                        ELSE << >>]
       /\ clients = << [NewClient("default") EXCEPT !.state = "ready"] >>
                    \o (IF u = "" THEN << >>
                        ELSE << [NewClient(StoredToken(u)) EXCEPT !.state = "ready"] >>)
       /\ mcpClient = [t \in Tasks |-> IF t # 1 THEN 0 ELSE IF u = "" THEN 1 ELSE 2]
       /\ cleanup = [t \in Tasks |-> IF t # 1 THEN "none"
                                     ELSE IF u = "" THEN DefaultCleanup ELSE UserCleanup]
       /\ calls = [t \in Tasks |-> IF t # 1 THEN NoCalls
                     ELSE [NoCalls EXCEPT !.list = 1, !.chat = r + 1, !.tool = r,
                                          !.ids = r,
                                          !.create = IF u = "" THEN 0 ELSE 1]]
       /\ \E l \in ToolCallLists({"jira_get_issue"}, MaxCalls, r) \ { << >> } :
            response = [t \in Tasks |-> IF t = 1
                          THEN [Content |-> "text", ToolCalls |-> l, IsComplete |-> FALSE]
                          ELSE NoResponse]

\* SpecTools starts in such a turn.
InitTools == InitRound /\ narration = [t \in Tasks |-> NoNarration]

\* The tool invocations of SpecTools: a failure, a short payload, or an
\* over-long one under each outcome of the auxiliary model call.
RoundOutcomes == ToolOutcomes({ShortLen, LongLen}, ChatOutcomes)

NextTools ==
  \/ handleToolCall(1, RoundOutcomes)
  \/ endRound(1)
  \/ ChatWithTools(1, GatewayResponses)

SpecTools == InitTools /\ [][NextTools]_vars

\* --------------------------------------------------------------- deadline
\* The 5 minutes of the turn's context run out while the turn is under way.
deadlineExpires(t) ==
  /\ alive
  /\ pc[t] \notin {"idle", "done"}
  /\ ~Expired(t)
  /\ deadline' = [deadline EXCEPT ![t] = "expired"]
  /\ UNCHANGED << procVars, pc, turns, userID, userToken, messages, currentRound,
                  response, toolIdx, mcpClient, cleanup, result, errlog, posts, calls,
                  narration >>

\* The model's answers in the turns of SpecDeadline: a completion, or one
\* call of a read-only tool.
DeadlineResponses(ids) ==
  { [Content |-> "text", ToolCalls |-> << >>, IsComplete |-> TRUE],
    [Content |-> "text", ToolCalls |-> << [ID |-> ids + 1, Name |-> "jira_get_issue"] >>,
     IsComplete |-> FALSE] }

\* The tool invocations of SpecDeadline: a short payload, or the error of a
\* call on an expired context.
DeadlineOutcomes ==
  { [call |-> "ok", text |-> ToolText(ShortLen), chat |-> "text"],
    [call |-> "timeout", text |-> ErrorText, chat |-> "text"] }

\* SpecDeadline: the turns of Spec, whose deadline may expire at any point.
NextDeadline ==
  \/ handleMessageEvent(1)
  \/ prepareConversation(1)
  \/ getUserPersonalToken(1)
  \/ getMcpClientEager(1)
  \/ createUserMcpClient(1)
  \/ initializeUserMcpClient(1)
  \/ ChatWithTools(1, DeadlineResponses(calls[1].ids))
  \/ handleToolCall(1, DeadlineOutcomes)
  \/ endRound(1)
  \/ deadlineExpires(1)

SpecDeadline == Init /\ [][NextDeadline]_vars

\* -------------------------------------------------------------- narration
\* The lines r earlier rounds have left in slackMessageLines after the
\* initial one: per round a content line, the invocation line of its one
\* tool call and the result line, which processToolResult appends twice.
PriorLines(r) ==
  [k \in 1 .. 4 * r |->
     LET i == ((k - 1) \div 4) + 1
         toolCall == [ID |-> i, Name |-> "jira_get_issue"]
     IN  CASE (k - 1) % 4 = 0 -> ContentLine(i - 1)
           [] (k - 1) % 4 = 1 -> CallLine(toolCall)
           [] OTHER -> ResultLine(toolCall, ToolText(ShortLen))]

\* The narration as these rounds have left it, after an initial post that
\* was delivered or not: the message displays what the last edit sent.
NarrationAfter(r, ok) ==
  LET ls == << initialMessage >> \o PriorLines(r)
      shown == IF r = 0 THEN ls ELSE SubSeq(ls, 1, Len(ls) - 1)
  IN  [followed |-> TRUE, lines |-> ls, timestamp |-> IF ok THEN 1 ELSE 0,
       displayed |-> IF ok THEN << shown >> ELSE << >>, log |-> << >>,
       failed |-> IF ok THEN 0 ELSE 1 + 3 * r,
       logged |-> IF ok THEN 0 ELSE 1 + 3 * r]

\* SpecReport starts in the turns of SpecTools, with the narration followed:
\* the content line of the response has just been reported.
InitReport ==
  /\ InitRound
  /\ \E ok \in Delivered :
       narration = [t \in Tasks |-> IF t = 1
                      THEN reportLine(NarrationAfter(currentRound[1], ok),
                                      ContentLine(currentRound[1]), TRUE)
                      ELSE NoNarration]

\* The tool invocations of SpecReport: a failure, a payload of the ticket
\* scenario, a short payload, or one that all but fills a message and whose
\* summary fails.
ReportOutcomes ==
  { [call |-> "error", text |-> ErrorText, chat |-> "text"],
    [call |-> "ok", text |-> ToolText(TicketLen), chat |-> "text"],
    [call |-> "ok", text |-> ToolText(ShortLen), chat |-> "text"],
    [call |-> "ok", text |-> ToolText(NearLen), chat |-> "error"] }

NextReport ==
  \/ handleToolCall(1, ReportOutcomes)
  \/ endRound(1)
  \/ ChatWithTools(1, GatewayResponses)

SpecReport == InitReport /\ [][NextReport]_vars

\* ------------------------------------------- one turn, two chat transports
\* What a turn is told: its window, with every tool payload and model answer
\* appended so far, the model's latest response, and the error a model call
\* or a tool call ended with.
Told(t) == << messages[t], response[t], result[t].err >>

\* What a turn does with it: its position in the loop, the calls it has made
\* of the model and of the tools, its final posts, its result and its errors.
Course(t) ==
  << pc[t], currentRound[t], toolIdx[t], calls[t], result[t], posts[t],
     errlog[t] >>

InStep == Told(1) = Told(2) /\ Course(1) = Course(2)

\* Every post and edit of the step of task t was delivered.
AllDelivered(t) == narration'[t].failed = narration[t].failed

\* SpecTwin runs the turn of SpecReport twice: task 1 with a chat API that
\* may fail at every post and edit (the initial post included), task 2 with
\* the same user, window and response and a chat API that never fails.
InitTwin ==
  /\ variant = "eager"
  /\ alive = TRUE
  /\ mcpInitOnce = "fresh"
  /\ mcpInitErr = "nil"
  /\ defaultInits = 0
  /\ applied = NoApplication
  /\ deadline = [t \in Tasks |-> "running"]
  /\ errlog = [t \in Tasks |-> NoErrors]
  /\ defaultMcpClient = 1
  /\ pc = [t \in Tasks |-> IF t <= 2 THEN "tools" ELSE "idle"]
  /\ turns = [t \in Tasks |-> IF t <= 2 THEN 1 ELSE 0]
  /\ result = [t \in Tasks |-> NoResult]
  /\ posts = [t \in Tasks |-> IF t <= 2 THEN [NoPosts EXCEPT !.initial = 1] ELSE NoPosts]
  /\ toolIdx = [t \in Tasks |-> IF t <= 2 THEN 1 ELSE 0]
  /\ \E u \in {"", "U1"}, r \in {0, maxRounds - 1} :
       /\ userID = [t \in Tasks |-> IF t <= 2 THEN u ELSE ""]
       /\ userToken = [t \in Tasks |-> IF t <= 2 /\ u # "" THEN StoredToken(u) ELSE ""]
       /\ currentRound = [t \in Tasks |-> IF t <= 2 THEN r ELSE 0]
       /\ messages = [t \in Tasks |-> IF t <= 2
                        THEN trimMessages(createInitialMessages(EmptyText, << >>) \o Pairs(1, r))
                        ELSE << >>]
       /\ clients = << [NewClient("default") EXCEPT !.state = "ready"] >>
                    \o (IF u = "" THEN << >>
                        ELSE [t \in 1 .. 2 |->
                               [NewClient(StoredToken(u)) EXCEPT !.state = "ready"]])
       /\ mcpClient = [t \in Tasks |-> IF t > 2 THEN 0 ELSE IF u = "" THEN 1 ELSE t + 1]
       /\ cleanup = [t \in Tasks |-> IF t > 2 THEN "none"
                                     ELSE IF u = "" THEN DefaultCleanup ELSE UserCleanup]
       /\ calls = [t \in Tasks |-> IF t > 2 THEN NoCalls
                     ELSE [NoCalls EXCEPT !.list = 1, !.chat = r + 1, !.tool = r,
                                          !.ids = r,
                                          !.create = IF u = "" THEN 0 ELSE 1]]
       /\ \E l \in ToolCallLists({"jira_get_issue"}, MaxCalls, r) \ { << >> } :
            response = [t \in Tasks |-> IF t <= 2
                          THEN [Content |-> "text", ToolCalls |-> l, IsComplete |-> FALSE]
                          ELSE NoResponse]
       /\ \E ok \in Delivered :
            narration = [t \in Tasks |->
                           IF t > 2 THEN NoNarration
                           ELSE reportLine(NarrationAfter(r, ok \/ t = 2),
                                           ContentLine(r), TRUE)]

\* Task 1 takes a step of its turn; then task 2 takes the same step, told
\* what task 1 was told, with its posts and edits delivered.
NextTwin ==
  \/ InStep /\ handleToolCall(1, ReportOutcomes)
  \/ InStep /\ endRound(1)
  \/ InStep /\ ChatWithTools(1, GatewayResponses)
  \/ ~InStep /\ handleToolCall(2, ReportOutcomes) /\ AllDelivered(2) /\ Told(2)' = Told(1)
  \/ ~InStep /\ endRound(2) /\ Told(2)' = Told(1)
  \/ ~InStep /\ ChatWithTools(2, GatewayResponses) /\ AllDelivered(2) /\ Told(2)' = Told(1)

SpecTwin == InitTwin /\ [][NextTwin]_vars /\ WF_vars(NextTwin)

\* ------------------------------------------------- functions on their own
\* The windows trimMessages is handed: the window of the round before
\* (the initial messages and the tool calls 1 .. j of earlier rounds, trimmed)
\* and the k tool calls of the latest response.
Windows ==
  { trimMessages(createInitialMessages(EmptyText, h) \o Pairs(1, j)) \o Pairs(j + 1, j + k) :
      h \in Histories, j \in 0 .. MaxPrior, k \in 0 .. MaxCalls + 1 }

\* SpecTrim: trimMessages applied to each of these windows.
InitTrim ==
  /\ InitProcess
  /\ InitTasks
  /\ variant = "eager"
  /\ \E w \in Windows :
       applied = [fn |-> "trimMessages", in |-> w, out |-> << >>, done |-> FALSE, n |-> 0]

applyTrimMessages ==
  /\ applied.fn = "trimMessages"
  /\ ~applied.done
  /\ applied' = [applied EXCEPT !.out = trimMessages(applied.in), !.done = TRUE]
  /\ UNCHANGED << variant, alive, defaultMcpClient, mcpInitOnce, mcpInitErr,
                  defaultInits, clients, pc, turns, turnVars >>

SpecTrim == InitTrim /\ [][applyTrimMessages]_vars

\* The texts summarizeIfTooLong is handed: the empty text, lengths on either
\* side of maxLen, and an over-long payload.
Texts ==
  { ToolText(n) : n \in {0, LongLen} \cup (maxLen - Margin .. maxLen + Margin) }

\* SpecSummarize: summarizeIfTooLong applied to each of these texts, under
\* each outcome of the auxiliary model call.
InitSummarize ==
  /\ InitProcess
  /\ InitTasks
  /\ variant = "eager"
  /\ \E x \in Texts :
       applied = [fn |-> "summarizeIfTooLong", in |-> x, out |-> << >>, done |-> FALSE, n |-> 0]

applySummarizeIfTooLong ==
  /\ applied.fn = "summarizeIfTooLong"
  /\ ~applied.done
  /\ \E c \in ChatOutcomes :
       applied' = [applied EXCEPT
                    !.out = [chat |-> c] @@ summarizeIfTooLong(applied.in, c),
                    !.done = TRUE]
  /\ UNCHANGED << variant, alive, defaultMcpClient, mcpInitOnce, mcpInitErr,
                  defaultInits, clients, pc, turns, turnVars >>

SpecSummarize == InitSummarize /\ [][applySummarizeIfTooLong]_vars

\* What a thread entry or a query says: one of a few distinct texts.
Said(n) == [kind |-> "said", len |-> n]

\* The thread histories of SpecInitial: up to MaxHistory entries, each of one
\* of the two roles the builder knows or of another one, saying one of two
\* texts.
RECURSIVE ThreadHistories(_)
ThreadHistories(n) ==
  IF n = 0 THEN { << >> }
  ELSE LET shorter == ThreadHistories(n - 1)
       IN  shorter \cup
           { Append(h, HistoryMessage(r, Said(c))) :
               h \in { x \in shorter : Len(x) = n - 1 }, r \in {"user", "assistant", "system"}, c \in 1 .. 2 }

\* SpecInitial: createInitialMessages applied to each history and a query
\* that says a text no thread entry says.
InitInitial ==
  /\ InitProcess
  /\ InitTasks
  /\ variant = "eager"
  /\ \E h \in ThreadHistories(MaxHistory) :
       applied = [fn |-> "createInitialMessages", in |-> h, out |-> << >>,
                  done |-> FALSE, n |-> 0]

applyCreateInitialMessages ==
  /\ applied.fn = "createInitialMessages"
  /\ ~applied.done
  /\ applied' = [applied EXCEPT !.out = createInitialMessages(Said(0), applied.in),
                                !.done = TRUE]
  /\ UNCHANGED << variant, alive, defaultMcpClient, mcpInitOnce, mcpInitErr,
                  defaultInits, clients, pc, turns, turnVars >>

SpecInitial == InitInitial /\ [][applyCreateInitialMessages]_vars

\* ----------------------------------------------------- tool input schemas
\* JSON values: null, strings, numbers, arrays and objects (a function from
\* its keys to values); a text that is not JSON at all is Malformed.
Null == [kind |-> "null"]
JString(x) == [kind |-> "string", value |-> x]
JNumber(n) == [kind |-> "number", value |-> n]
JArray(a) == [kind |-> "array", value |-> a]
JObject(m) == [kind |-> "object", value |-> m]
Malformed == [kind |-> "malformed"]

EmptyMap == [k \in {} |-> Null]

\* The keys and values of the objects handed to ensureValidSchema.
SchemaKeys == {"type", "properties", "required"}

SchemaValues ==
  { JString("object"), JString("string"), Null, JObject(EmptyMap), JArray(<< >>) }

\* The schemas handed to ensureValidSchema: every object over these keys and
\* values, each JSON value that is not an object, and a text that is not JSON.
Schemas ==
  { JObject(m) : m \in UNION { [K -> SchemaValues] : K \in SUBSET SchemaKeys } }
    \cup { Null, JString("object"), JNumber(1), JArray(<< >>), Malformed }

\* json.Unmarshal(schema, &m) with m a nil map[string]interface{}: an object
\* fills the map, null leaves it nil without an error, anything else is an
\* error.
Unmarshal(schema) ==
  CASE schema.kind = "object" -> [err |-> FALSE, nil |-> FALSE, m |-> schema.value]
    [] schema.kind = "null" -> [err |-> FALSE, nil |-> TRUE, m |-> EmptyMap]
    [] OTHER -> [err |-> TRUE, nil |-> TRUE, m |-> EmptyMap]

\* m[k] = v on a map that is not nil.
SetKey(m, k, v) == [x \in DOMAIN m \cup {k} |-> IF x = k THEN v ELSE m[x]]

\* {"type":"object","properties":{}}
Fallback == JObject(SetKey(SetKey(EmptyMap, "type", JString("object")),
                           "properties", JObject(EmptyMap)))

Returned(json) == [panic |-> FALSE, json |-> json]

\* panic: assignment to entry in nil map
NilMapPanic == [panic |-> TRUE, json |-> Null]

\* ensureValidSchema: the fallback when the schema does not decode into a
\* map; else "type" is set unless it is "object" already, "properties" is
\* set when the key is missing, and the map is encoded again. Reading a nil
\* map yields nil, writing to it panics.
ensureValidSchema(schema) ==
  LET u == Unmarshal(schema)
      typed == IF "type" \in DOMAIN u.m /\ u.m["type"] = JString("object")
               THEN u.m ELSE SetKey(u.m, "type", JString("object"))
      done == IF "properties" \in DOMAIN typed THEN typed
              ELSE SetKey(typed, "properties", JObject(EmptyMap))
  IN  IF u.err THEN Returned(Fallback)
      ELSE IF u.nil THEN NilMapPanic
      ELSE Returned(JObject(done))

\* SpecSchema: ensureValidSchema applied to each of these schemas.
InitSchema ==
  /\ InitProcess
  /\ InitTasks
  /\ variant = "eager"
  /\ \E x \in Schemas :
       applied = [fn |-> "ensureValidSchema", in |-> x, out |-> << >>, done |-> FALSE, n |-> 0]

applyEnsureValidSchema ==
  /\ applied.fn = "ensureValidSchema"
  /\ ~applied.done
  /\ applied' = [applied EXCEPT !.out = ensureValidSchema(applied.in),
                                !.done = TRUE]
  /\ UNCHANGED << variant, alive, defaultMcpClient, mcpInitOnce, mcpInitErr,
                  defaultInits, clients, pc, turns, turnVars >>

SpecSchema == InitSchema /\ [][applyEnsureValidSchema]_vars

\* ------------------------------------------------ the server's front door
\* A message event as handleMessageEvent reads it: who wrote it (BotID), its
\* subtype, the kind of channel, whether the text mentions the bot and
\* whether it sits in a thread.
SlackMessages ==
  [inner : {"message"}, BotID : {"", "B1"},
   SubType : {"", "bot_message", "message_changed"},
   ChannelType : {"im", "channel"}, mentions : BOOLEAN,
   ThreadTimeStamp : {"", "ts0"}]

\* An app mention, of which handleAppMentionEvent reads BotID and the thread,
\* and an inner event of any other type.
SlackMentions ==
  [inner : {"app_mention"}, BotID : {"", "B1"}, SubType : {""},
   ChannelType : {"channel"}, mentions : {TRUE}, ThreadTimeStamp : {"", "ts0"}]

NoEvent ==
  [inner |-> "none", BotID |-> "", SubType |-> "", ChannelType |-> "channel",
   mentions |-> FALSE, ThreadTimeStamp |-> ""]

OtherEvent == [NoEvent EXCEPT !.inner = "reaction_added"]

\* The requests POSTed to "/": Slack's first delivery (no X-Slack-Retry-Num)
\* or a redelivery (retry number 1), with no body, a body ParseEvent rejects,
\* a URL verification, or an event callback.
HttpRequests ==
  [retryNum : {"", "1"}, Body : {"", "malformed", "url_verification"},
   event : {NoEvent}]
    \cup [retryNum : {"", "1"}, Body : {"event_callback"},
          event : SlackMessages \cup SlackMentions \cup {OtherEvent}]

\* What the calls made before processQuery can return: api.AuthTest and
\* getThreadHistory.
DoorOutcomes == [auth : {"nil", "error"}, history : {"nil", "error"}]

HttpResponse(code, body, next) == [StatusCode |-> code, Body |-> body, next |-> next]

\* A faulty middleware that answers a redelivery and lets the chain go on.
HandleSlackRetryGoesOn(req) ==
  IF req.retryNum # "" THEN HttpResponse(200, "ok (retry skipped)", TRUE)
  ELSE HttpResponse(0, "", TRUE)

\* HandleSlackRetry: a request with a retry number is answered with 200 and
\* the chain is aborted; any other request goes on to the next handler.
HandleSlackRetry(req) ==
  IF req.retryNum # "" THEN HttpResponse(200, "ok (retry skipped)", FALSE)
  ELSE HttpResponse(0, "", TRUE)

\* A faulty filter that looks at BotID only.
AuthoredByBotID(ev) == ev.BotID # ""

\* handleMessageEvent, first test: the event was written by a bot.
AuthoredByBot(ev) ==
  ev.BotID # "" \/ ev.SubType = "bot_message" \/ ev.SubType = "message_changed"

\* How far an inner event gets: "ignored" (the handler returns nil before any
\* work), "error" (AuthTest failed), "notice" (the thread history failed: the
\* error notice is posted), or "processQuery".
Dispatch(ev, o) ==
  CASE ev.inner = "message" ->
         IF AuthoredByBot(ev) THEN "ignored"
         ELSE IF o.auth = "error" THEN "error"
         ELSE IF ev.ChannelType # "im" /\ ~ev.mentions THEN "ignored"
         ELSE IF ev.ThreadTimeStamp # "" /\ o.history = "error" THEN "notice"
         ELSE "processQuery"
    [] ev.inner = "app_mention" ->
         IF ev.BotID # "" THEN "ignored"
         ELSE IF ev.ThreadTimeStamp # "" /\ o.history = "error" THEN "notice"
         ELSE "processQuery"
    [] OTHER -> "unsupported"

\* HandleRequest up to the call of processQuery: the answers given without
\* handling an event, and for an event callback the handler of its inner
\* event. A turn that starts answers when it ends.
HandleRequest(t, req, o) ==
  LET far == Dispatch(req.event, o) IN
  CASE req.Body = "" ->
         /\ applied' = [applied EXCEPT !.done = TRUE,
                          !.out = HttpResponse(200, "error: empty request body", FALSE)]
         /\ UNCHANGED << pc, turns, turnVars, serverVars >>
    [] req.Body = "malformed" ->
         /\ applied' = [applied EXCEPT !.done = TRUE,
                          !.out = HttpResponse(200, "error: failed to parse slack event", FALSE)]
         /\ UNCHANGED << pc, turns, turnVars, serverVars >>
    [] req.Body = "url_verification" ->
         /\ applied' = [applied EXCEPT !.done = TRUE,
                          !.out = HttpResponse(200, req.Body, FALSE)]
         /\ UNCHANGED << pc, turns, turnVars, serverVars >>
    [] OTHER ->
         CASE far = "processQuery" ->
                /\ applied' = [applied EXCEPT !.done = TRUE,
                                 !.out = HttpResponse(200, "after the turn", TRUE)]
                /\ enterProcessQuery(t)
                /\ UNCHANGED serverVars
           [] far = "notice" ->
                /\ applied' = [applied EXCEPT !.done = TRUE,
                                 !.out = HttpResponse(200, "error: failed to handle message event", FALSE)]
                /\ posts' = [posts EXCEPT ![t].error = @ + 1]
                /\ UNCHANGED << pc, turns, userID, userToken, messages, currentRound,
                                response, toolIdx, mcpClient, cleanup, result, calls,
                                narration, deadline, errlog, serverVars >>
           [] far = "error" ->
                /\ applied' = [applied EXCEPT !.done = TRUE,
                                 !.out = HttpResponse(200, "error: failed to handle message event", FALSE)]
                /\ UNCHANGED << pc, turns, turnVars, serverVars >>
           [] OTHER ->
                /\ applied' = [applied EXCEPT !.done = TRUE,
                                 !.out = HttpResponse(200, "status: ok", FALSE)]
                /\ UNCHANGED << pc, turns, turnVars, serverVars >>

\* Slack POSTs a request to "/": the n-th one, after the one before it has
\* gone through the chain.
receiveRequest ==
  /\ alive
  /\ \E req \in HttpRequests, n \in 1 .. MaxRequests :
       /\ IF n = 1 THEN applied = NoApplication
                   ELSE applied.done /\ applied.n = n - 1
       /\ applied' = [fn |-> "ServeHTTP", in |-> req, out |-> << >>,
                      done |-> FALSE, n |-> n]
  /\ UNCHANGED << pc, turns, turnVars, serverVars >>

\* RouterEngine's chain for POST "/", run by goroutine t: gin.Recovery,
\* HandleSlackRetry, the log middleware, then HandleRequest.
ServeHTTP(t) ==
  /\ alive
  /\ applied.fn = "ServeHTTP"
  /\ ~applied.done
  /\ pc[t] \in {"idle", "done"}
  /\ LET retry == HandleSlackRetry(applied.in) IN
     IF retry.next
     THEN \E o \in DoorOutcomes : HandleRequest(t, applied.in, o)
     ELSE /\ applied' = [applied EXCEPT !.done = TRUE, !.out = retry]
          /\ UNCHANGED << pc, turns, turnVars, serverVars >>

\* SpecDoor: requests arrive and go through the chain; the turns they start
\* run up to the model's first answer, on every goroutine.
NextDoor ==
  \/ receiveRequest
  \/ \E t \in Tasks : ServeHTTP(t)
  \/ \E t \in Tasks :
       \/ prepareConversation(t)
       \/ getUserPersonalToken(t)
       \/ getMcpClientEager(t)
       \/ createUserMcpClient(t)
       \/ initializeUserMcpClient(t)
       \/ ChatWithTools(t, GatewayResponses)

InitDoor == Init /\ variant = "eager"

SpecDoor == InitDoor /\ [][NextDoor]_vars

\* ------------------------------------------------- the Lambda entry point
\* A message event as HandleEvent reads it: whether a bot wrote it and whether
\* it sits in a thread.
MessageEvents == [BotID : {"", "B1"}, ThreadTimeStamp : {"", "ts0"}]

\* What the three fallible steps of HandleEvent can return.
HandleOutcomes == [history : {"nil", "error"}, query : {"nil", "error"},
                   post : {"nil", "error"}]

\* HandleEvent: a bot's message is dropped; a threaded message loads the
\* thread history first; then the query is processed and the answer posted.
\* The first step that fails is the error returned.
HandleEvent(ev, o) ==
  IF ev.BotID # "" THEN "nil"
  ELSE IF ev.ThreadTimeStamp # "" /\ o.history = "error"
         THEN "failed to get thread history"
  ELSE IF o.query = "error" THEN "failed to process query"
  ELSE IF o.post = "error" THEN "failed to post message"
  ELSE "nil"

\* The request bodies the gateway hands over: none, one ParseEvent rejects, a
\* URL verification (whose challenge decodes or not), an event callback (with
\* a message event or another inner event) and any other outer event type.
BodyKinds ==
  {"", "malformed", "url_verification", "bad_challenge", "event_callback",
   "app_rate_limited"}

InnerEvents == {"message", "app_mention"}

ProxyRequests == [Body : BodyKinds, inner : InnerEvents, event : MessageEvents]

ProxyResponse(code, body) == [StatusCode |-> code, Body |-> body]

\* A handler that echoes the body of every request it can parse.
handleRequestEchoes(req, o) ==
  IF req.Body = "" THEN ProxyResponse(400, "empty request body")
  ELSE IF req.Body = "malformed" THEN ProxyResponse(400, "failed to parse slack event")
  ELSE ProxyResponse(200, req.Body)

\* handleRequest of the Lambda build.
handleRequest(req, o) ==
  IF req.Body = "" THEN ProxyResponse(400, "empty request body")
  ELSE IF req.Body = "malformed" THEN ProxyResponse(400, "failed to parse slack event")
  ELSE IF req.Body = "bad_challenge" THEN ProxyResponse(400, "failed to parse challenge")
  ELSE IF req.Body = "url_verification" THEN ProxyResponse(200, req.Body)
  ELSE IF /\ req.Body = "event_callback"
          /\ req.inner = "message"
          /\ HandleEvent(req.event, o) # "nil"
         THEN ProxyResponse(500, "failed to handle message event")
  ELSE ProxyResponse(200, "ok")

\* SpecLambda: handleRequest applied to each request, under each outcome of
\* the event handling.
InitLambda ==
  /\ InitProcess
  /\ InitTasks
  /\ variant = "eager"
  /\ \E req \in ProxyRequests :
       applied = [fn |-> "handleRequest", in |-> req, out |-> << >>, done |-> FALSE, n |-> 0]

applyHandleRequest ==
  /\ applied.fn = "handleRequest"
  /\ ~applied.done
  /\ \E o \in HandleOutcomes :
       applied' = [applied EXCEPT
                    !.out = [handled |-> HandleEvent(applied.in.event, o)]
                              @@ handleRequest(applied.in, o),
                    !.done = TRUE]
  /\ UNCHANGED << variant, alive, defaultMcpClient, mcpInitOnce, mcpInitErr,
                  defaultInits, clients, pc, turns, turnVars >>

SpecLambda == InitLambda /\ [][applyHandleRequest]_vars

\* ----------------------------------------------------------------- claims
\* What the claims observe of a turn.
FinalAnswers(t) == posts[t].answer + posts[t].error + posts[t].denied

MutatingSet == { writableJiraTools[i] : i \in DOMAIN writableJiraTools }

\* Tool call tc of a turn holding credential token is one the gate must stop.
MustDeny(tc, token) == tc.Name \in MutatingSet /\ token = ""

\* The turn of task t has asked for the default client and has an answer.
DefaultReturned(t) == userToken[t] = "" /\ pc[t] \in {"loop", "tools", "done"}

\* The turn of task t holds a per-user client that getMcpClient returned.
HoldsUserClient(t) ==
  userToken[t] # "" /\ mcpClient[t] # 0 /\ pc[t] \in {"loop", "tools", "done"}

\* The orchestrator state of task t; a process that logger.Fatal has ended in
\* the middle of a turn has failed the turn.
OrchestratorState(t) ==
  IF pc[t] = "idle" THEN "Idle"
  ELSE IF pc[t] = "done" THEN result[t].state
  ELSE IF ~alive THEN "Failed"
  ELSE IF pc[t] = "loop" THEN "Thinking"
  ELSE IF pc[t] = "tools" THEN "AwaitingTools"
  ELSE "Preparing"

Terminal == {"Complete", "MaxRoundsReached", "Failed"}

\* C1: every turn that has ended has posted exactly one final answer (the
\* model's answer, an error notice, a permission-denied notice, or the partial
\* answer after the round warning), and no turn ever posts more than one.
C1_ExactlyOneFinalAnswer ==
  \A t \in Tasks :
    /\ FinalAnswers(t) <= 1
    /\ pc[t] = "done" => FinalAnswers(t) = 1

ClaimedTransitions ==
  { << "Preparing", "Thinking" >>, << "Thinking", "AwaitingTools" >>,
    << "AwaitingTools", "Thinking" >>, << "AwaitingTools", "Complete" >>,
    << "AwaitingTools", "MaxRoundsReached" >>, << "AwaitingTools", "Failed" >> }

CodeTransitions ==
  { << "Preparing", "Thinking" >>, << "Preparing", "Failed" >>,
    << "Thinking", "AwaitingTools" >>, << "Thinking", "Complete" >>,
    << "Thinking", "Failed" >>,
    << "AwaitingTools", "Thinking" >>, << "AwaitingTools", "MaxRoundsReached" >>,
    << "AwaitingTools", "Failed" >> }

\* A step keeps to the transitions Tr: within a turn the state changes only
\* along Tr, a terminal state is kept and no model or tool call follows it; a
\* new turn starts in Preparing, from Idle or from a terminal state.
KeepsTo(Tr) ==
  \A t \in Tasks :
    IF turns'[t] = turns[t]
    THEN /\ OrchestratorState(t)' # OrchestratorState(t)
              => << OrchestratorState(t), OrchestratorState(t)' >> \in Tr
         /\ OrchestratorState(t) \in Terminal => calls'[t] = calls[t]
    ELSE /\ OrchestratorState(t) \in Terminal \cup {"Idle"}
         /\ OrchestratorState(t)' = "Preparing"

Terminates ==
  \A t \in Tasks :
    (pc[t] \notin {"idle", "done"}) ~> (OrchestratorState(t) \in Terminal)

C4_PermissionGate ==
  LET tcs == response[1].ToolCalls IN
  /\ pc[1] = "tools"
       => /\ calls[1].tool = toolIdx[1] - 1
          /\ \A i \in 1 .. toolIdx[1] - 1 : ~MustDeny(tcs[i], userToken[1])
  /\ result[1].err = "permission"
       => /\ calls[1].tool + 1 \in DOMAIN tcs
          /\ MustDeny(tcs[calls[1].tool + 1], userToken[1])
          /\ \A i \in 1 .. calls[1].tool : ~MustDeny(tcs[i], userToken[1])

C4_Witness ==
  /\ result[1].err = "permission"
  /\ calls[1].tool = 1
  /\ response[1].ToolCalls[2].Name = "jira_add_worklog"

\* C5: a denied tool call aborts the rest of the turn: the tool loop never
\* goes past a call the gate must stop; at the denial the permission notice
\* is posted (and nothing else), the turn has returned the error, the denied
\* call and the calls after it have not been invoked, and from then on the
\* turn makes no tool call and no model call.
C5_DenialAborts ==
  /\ [](\A t \in Tasks :
          LET tcs == response[t].ToolCalls IN
          /\ pc[t] = "tools"
               => \A i \in 1 .. toolIdx[t] - 1 : ~MustDeny(tcs[i], userToken[t])
          /\ posts[t].denied > 0 => result[t].err = "permission"
          /\ result[t].err = "permission"
               => /\ pc[t] = "done"
                  /\ result[t].state = "Failed"
                  /\ posts[t].denied = 1
                  /\ posts[t].answer = 0
                  /\ posts[t].error = 0
                  /\ calls[t].tool = calls[t].ids
                  /\ calls[t].chat = currentRound[t] + 1
                  /\ \E i \in DOMAIN tcs : /\ tcs[i].ID = calls[t].ids + 1
                                           /\ MustDeny(tcs[i], userToken[t]))
  /\ [][\A t \in Tasks :
          (result[t].err = "permission" /\ turns'[t] = turns[t])
            => (calls'[t] = calls[t] /\ posts'[t] = posts[t])]_vars

C5_Witness ==
  /\ result[1].err = "permission"
  /\ Len(response[1].ToolCalls) = 2
  /\ response[1].ToolCalls[1].Name = "jira_create_issue"
  /\ currentRound[1] = 1

C7_EphemeralClosedOnce ==
  /\ \A c \in DOMAIN clients :
       clients[c].token # "default"
         => clients[c].closes <= 1 /\ ~clients[c].late
  /\ \A t \in Tasks :
       HoldsUserClient(t)
         => /\ clients[mcpClient[t]].token = userToken[t]
            /\ pc[t] = "done" => /\ clients[mcpClient[t]].closes = 1
                                 /\ clients[mcpClient[t]].state = "closed"
            /\ pc[t] # "done" => /\ clients[mcpClient[t]].closes = 0
                                 /\ clients[mcpClient[t]].state = "ready"

C7_Witness ==
  /\ HoldsUserClient(1)
  /\ result[1].state = "MaxRoundsReached"
  /\ clients[mcpClient[1]].closes = 1
  /\ calls[1].tool > 0

\* What a turn that asked for the default client was given.
Outcome(t) ==
  IF cleanup[t] # "none" THEN << "client", mcpClient[t] >>
  ELSE << "error", result[t].err >>

\* C8: under the lazy gateways, however many turns ask for the default client
\* at once, its creation and handshake are started once, no caller is
\* answered before they have ended, and all callers are given the same
\* outcome: the one client, or the one failure.
C8_SingleInitialization ==
  variant # "eager"
    => /\ defaultInits <= 1
       /\ Cardinality({ c \in DOMAIN clients : clients[c].token = "default" }) <= 1
       /\ mcpInitOnce # "done" => \A t \in Tasks : ~DefaultReturned(t)
       /\ \A t \in Tasks :
            DefaultReturned(t)
              => /\ Outcome(t) \in { << "client", defaultMcpClient >>,
                                     << "error", mcpInitErr >> }
                 /\ Outcome(t)[1] = "client" <=> mcpInitErr = "nil"
       /\ \A t1, t2 \in Tasks :
            (DefaultReturned(t1) /\ DefaultReturned(t2)) => Outcome(t1) = Outcome(t2)

C8_Witness ==
  /\ variant # "eager"
  /\ turns[1] = 1 /\ turns[2] = 1
  /\ DefaultReturned(1) /\ DefaultReturned(2)
  /\ pc[1] = "loop" /\ pc[2] = "loop"
  /\ defaultInits = 1

\* C9: when the first initialization of the default client has failed, the
\* failure is kept: the initialization is not started again, no default
\* client is handed out, and every request for the default client, the first
\* and the later ones, returns the stored failure.
C9_FailureIsCached ==
  mcpInitErr # "nil"
    => /\ mcpInitOnce = "done"
       /\ defaultInits = 1
       /\ defaultMcpClient = 0
       /\ \A t \in Tasks :
            DefaultReturned(t)
              => /\ cleanup[t] = "none"
                 /\ pc[t] = "done"
                 /\ result[t].err = mcpInitErr
                 /\ posts[t].error = 1
                 /\ calls[t].chat = 0

C9_Witness ==
  /\ mcpInitErr = "init"
  /\ turns[1] = 2
  /\ DefaultReturned(1)
  /\ calls[1].create = 0
  /\ result[1].err = "init"

\* C10: no turn closes the default client: it is never closed, once set
\* h.defaultMcpClient stays the same open client, and every turn without a
\* token is handed that client.
C10_DefaultNeverClosed ==
  /\ [](/\ \A c \in DOMAIN clients :
             clients[c].token = "default"
               => clients[c].closes = 0 /\ clients[c].state # "closed"
        /\ defaultMcpClient # 0
             => /\ clients[defaultMcpClient].token = "default"
                /\ clients[defaultMcpClient].state = "ready"
        /\ \A t \in Tasks :
             (DefaultReturned(t) /\ cleanup[t] # "none")
               => mcpClient[t] = defaultMcpClient)
  /\ [][defaultMcpClient # 0 => defaultMcpClient' = defaultMcpClient]_vars

C10_Witness ==
  /\ turns[1] = 2
  /\ pc[1] = "done"
  /\ DefaultReturned(1)
  /\ result[1].state = "Complete"
  /\ mcpClient[1] = defaultMcpClient
  /\ clients[defaultMcpClient].state = "ready"

\* C11: a failed initialization handshake of a tool client ends only the
\* turn that asked for the client: the process stays up to serve later
\* turns (a turn that has reached its client's handshake is never left there
\* by a process that has ended), and a turn that ends on the failure ends
\* Failed with one error notice.
C11_HandshakeFailureEndsTurnOnly ==
  \A t \in Tasks :
    /\ pc[t] \in {"initUser", "initDefault"} => alive
    /\ result[t].err = "init" =>
         result[t].state = "Failed" /\ posts[t].error = 1

\* C12: no request is attempted on a tool client whose initialization
\* handshake has not completed, the lazily created default client and the
\* tool listing of prepareConversation included.
C12_NoRequestBeforeHandshake ==
  \A t \in Tasks : calls[t].early = 0

\* The positions of window m that hold a tool message for tool call id.
ToolMessagesOf(m, id) == { i \in DOMAIN m : m[i].role = "tool" /\ m[i].id = id }

\* C13: a failed tool invocation does not abort the turn.  The step that
\* records it appends a tool message with the id of the failed call and the
\* error text, leaves the turn in its tool round and moves on to the next
\* tool call of the response; while a response is being processed every call
\* handled so far has its invocation and its tool message in the window, in
\* order; after the round every call of the turn has its tool message; and
\* a later model call is handed a window that holds the error messages.
C13_ToolErrorGoesOn ==
  /\ [](\A t \in Tasks :
         /\ pc[t] = "tools" =>
              \A i \in 1 .. toolIdx[t] - 1 :
                LET at == Len(messages[t]) - 2 * (toolIdx[t] - i) + 1
                    id == response[t].ToolCalls[i].ID
                IN  /\ at >= 1
                    /\ messages[t][at] = Msg("assistant", id)
                    /\ messages[t][at + 1].role = "tool"
                    /\ messages[t][at + 1].id = id
         /\ pc[t] = "loop" /\ currentRound[t] = 1 =>
              \A id \in 1 .. calls[t].ids :
                Cardinality(ToolMessagesOf(messages[t], id)) = 1)
  /\ [][\A t \in Tasks :
         /\ ( /\ calls'[t].tool = calls[t].tool + 1
              /\ pc'[t] = "tools"
              /\ messages'[t][Len(messages'[t])].text = ErrorText )
            => /\ messages'[t] = messages[t] \o
                    << Msg("assistant", response[t].ToolCalls[toolIdx[t]].ID),
                       ToolMsg(response[t].ToolCalls[toolIdx[t]].ID, ErrorText) >>
               /\ toolIdx'[t] = toolIdx[t] + 1
               /\ result'[t] = NoResult
               /\ posts'[t] = posts[t]
         /\ calls'[t].chat = calls[t].chat + 1
            => \A i \in DOMAIN messages[t] :
                 messages[t][i].text = ErrorText =>
                   \E j \in DOMAIN ModelWindow(messages[t]) :
                     ModelWindow(messages[t])[j] = messages[t][i]
     ]_vars

\* Witness: the first of two tool calls of a response has failed, the second
\* has been processed, and the turn is about to call the model again.
C13_Witness ==
  /\ pc[1] = "loop"
  /\ calls[1].tool = 2
  /\ messages[1][Len(messages[1]) - 2] = ToolMsg(1, ErrorText)
  /\ messages[1][Len(messages[1])].id = 2

\* The errors the code treats as unrecoverable for a turn.
UnrecoverableErrors == {"model", "listTools", "permission", "createUser", "create", "init"}

\* C14: a turn that has ended on a model call failure, a tool listing
\* failure, a permission denial or a client resolution failure is Failed, has
\* posted exactly one notice for the user (error or permission denied), has
\* released its per-user client, and makes no further model or tool call.
C14_ErrorsEndTurnWithNotice ==
  /\ [](\A t \in Tasks :
         pc[t] = "done" /\ result[t].err \in UnrecoverableErrors =>
           /\ result[t].state = "Failed"
           /\ posts[t].error + posts[t].denied = 1
           /\ cleanup[t] = "close" => clients[mcpClient[t]].state = "closed")
  /\ [][\A t \in Tasks :
         pc[t] = "done" /\ pc'[t] = "done" => calls'[t] = calls[t]]_vars

\* What a model call of task t has come to in a step: a completion that
\* ends the turn, or a response that opens a tool round.
ModelCompleted(t) ==
  calls'[t].chat = calls[t].chat + 1 /\ pc'[t] = "done" /\ result'[t].err = "nil"

ModelRequestedTools(t) ==
  calls'[t].chat = calls[t].chat + 1 /\ pc'[t] = "tools"

\* A completion ends the turn in Complete with its content as the final text
\* and without a tool invocation; a response that opens a tool round is not a
\* completion.
CompletionOutcome(t) ==
  /\ ModelCompleted(t) =>
       /\ response'[t].IsComplete
       /\ response'[t].ToolCalls = << >>
       /\ result'[t].state = "Complete"
       /\ result'[t].text = Str(response'[t].Content)
       /\ calls'[t].tool = calls[t].tool
  /\ ModelRequestedTools(t) =>
       /\ ~response'[t].IsComplete
       /\ toolIdx'[t] = 1
       /\ result'[t] = NoResult

C16_TrimKeepsSystemAndTail ==
  (applied.fn = "trimMessages" /\ applied.done) =>
    LET in == applied.in
        out == applied.out
    IN  IF Len(in) > 21
        THEN /\ Len(out) = 21
             /\ out[1] = in[1]
             /\ out[1].role = "system"
             /\ \A i \in 1 .. 20 : out[1 + i] = in[Len(in) - 20 + i]
        ELSE out = in

\* Witness: a window of more than 21 entries has been trimmed.
C16_Witness ==
  /\ applied.fn = "trimMessages"
  /\ applied.done
  /\ Len(applied.in) > 21 + 2
  /\ Len(applied.out) = 21

\* Witness: a window of exactly 21 entries has been returned as it is.
C16_WitnessUnchanged ==
  /\ applied.fn = "trimMessages"
  /\ applied.done
  /\ Len(applied.in) = 21
  /\ applied.out = applied.in

\* The positions of window m that hold a system message.
SystemMessages(m) == { i \in DOMAIN m : m[i].role = "system" }

\* Window m has at most 21 messages and one system message, the first.
WellFormedWindow(m) ==
  /\ Len(m) >= 1
  /\ Len(m) <= 21
  /\ SystemMessages(m) = {1}

\* C17: in every round of every turn the window handed to the model call is
\* the trimmed one: it has at most 21 messages and exactly one system
\* message, at index 0, whatever the tool rounds before have appended.  (A
\* response that asks for tools leaves the turn with that window.)
C17_TrimmedBeforeEveryModelCall ==
  [][\A t \in Tasks :
       calls'[t].chat = calls[t].chat + 1 =>
         /\ WellFormedWindow(ModelWindow(messages[t]))
         /\ pc'[t] = "tools" =>
              /\ messages'[t] = ModelWindow(messages[t])
              /\ WellFormedWindow(messages'[t])
    ]_vars

\* Witness: a late round whose window had outgrown 21 messages has called the
\* model, and the turn holds the trimmed window.
C17_Witness ==
  /\ pc[1] = "tools"
  /\ toolIdx[1] = 1
  /\ currentRound[1] >= 11
  /\ calls[1].tool > 10
  /\ Len(messages[1]) = 21

\* summarizeIfTooLong has been applied to a text.
Summarized == applied.fn = "summarizeIfTooLong" /\ applied.done

\* C18: summarizeIfTooLong applied to a text of length (len, in bytes) at
\* most 2000 returns the text unchanged with a nil error, and makes no model
\* call, whatever the model would answer.
C18_ShortTextUnchanged ==
  (Summarized /\ applied.in.len <= 2000) =>
    /\ applied.out.text = applied.in
    /\ applied.out.err = "nil"
    /\ applied.out.calls = 0
    /\ ~applied.out.panic

\* Witness: a text of exactly 2000 bytes has been handed back.
C18_Witness ==
  /\ Summarized
  /\ applied.in.len = 2000
  /\ applied.out.text = applied.in

\* C19: summarizeIfTooLong applied to a text longer than 2000 makes exactly
\* one auxiliary model call and returns: the original text with the error of
\* the call if the call failed, the original text if the call gave an empty
\* result, and the model's output otherwise.
C19_LongTextSummarizedOrKept ==
  (Summarized /\ applied.in.len > 2000) =>
    /\ applied.out.calls = 1
    /\ ~applied.out.panic
    /\ IF applied.out.chat = "error"
       THEN applied.out.text = applied.in /\ applied.out.err = "chat"
       ELSE IF applied.out.chat = "text"
       THEN applied.out.text = SummaryText /\ applied.out.err = "nil"
       ELSE applied.out.text = applied.in /\ applied.out.err = "nil"

\* C20: a tool call that returns an over-long payload has the summarizer
\* invoked exactly once, and an error of its auxiliary model call does not
\* fail the turn: summarizeIfTooLong hands back the payload, and the step
\* that records an over-long payload unsummarized has made the one auxiliary
\* call, appends the payload as the tool message of the call, posts nothing,
\* leaves the turn in its tool round and moves on to the next tool call (or,
\* after the last one, to the next model call).  A payload is only ever
\* recorded as it is or as the summary, and a short payload or an error text
\* costs no auxiliary call.
C20_SummaryErrorKeepsPayload ==
  /\ [](summarizeIfTooLong(ToolText(LongLen), "error") =
          [text |-> ToolText(LongLen), err |-> "chat", calls |-> 1, panic |-> FALSE])
  /\ [][\A t \in Tasks :
         (calls'[t].tool = calls[t].tool + 1 /\ pc'[t] = "tools") =>
           LET id == response[t].ToolCalls[toolIdx[t]].ID
               last == messages'[t][Len(messages'[t])]
           IN  /\ last.role = "tool" /\ last.id = id
               /\ toolIdx'[t] = toolIdx[t] + 1
               /\ result'[t] = NoResult /\ posts'[t] = posts[t]
               /\ \/ /\ last.text = ToolText(LongLen)
                     /\ calls'[t].aux = calls[t].aux + 1
                  \/ /\ last.text = SummaryText
                     /\ calls'[t].aux = calls[t].aux + 1
                  \/ /\ last.text \in {ToolText(ShortLen), ErrorText}
                     /\ calls'[t].aux = calls[t].aux
     ]_vars

\* Witness: the first tool call of a response returned an over-long payload,
\* its summary failed, the payload is in the window as its tool message, the
\* second tool call has been processed and the turn goes on to the model.
C20_Witness ==
  /\ pc[1] = "loop"
  /\ calls[1].tool = 2
  /\ calls[1].aux = 1
  /\ messages[1][Len(messages[1]) - 2] = ToolMsg(1, ToolText(LongLen))
  /\ messages[1][Len(messages[1])] = ToolMsg(2, ToolText(ShortLen))

\* ------------------------------------------------------ progress reporter
\* The reports of the turn of task 1.
Reports == { narration[1].log[i] : i \in DOMAIN narration[1].log }

\* Report e was made where the ceiling asks for a new message.
OverCeiling(e) == JoinLen(Append(e.before, e.line)) > maxMessageLength

\* Report e is a new message with the line alone, and the buffer is that line.
Splits(e) == e.op = "post" /\ e.text = << e.line >> /\ e.after = << e.line >>

\* Report e is an edit with every line so far and the new one.
EditsInPlace(e) == e.op = "edit" /\ e.text = Append(e.before, e.line)

\* C21: a report whose line takes the joined lines over the 40,000-character
\* ceiling posts a new message with that line alone and leaves the buffer
\* with exactly that line; every other report edits the displayed message
\* with all the lines so far.
C21_SplitAtCeiling ==
  \A e \in Reports : IF OverCeiling(e) THEN Splits(e) ELSE EditsInPlace(e)

\* C22: lines are only appended: after a report that does not split the
\* message the buffer is the buffer before the report followed by the
\* reported line, once.
C22_LinesAppendedOnce ==
  \A e \in Reports : e.op = "edit" => e.after = Append(e.before, e.line)

\* The reports before report i of the turn of task 1 that posted a message.
SplitsBefore(i) == { j \in 1 .. i - 1 : narration[1].log[j].op = "post" }

\* The latest of them.
LastSplit(i) == CHOOSE j \in SplitsBefore(i) : \A k \in SplitsBefore(i) : k <= j

\* C23: every edit targets a message that was posted, and after a split the
\* message that split posted.
C23_EditsTargetDisplayedMessage ==
  \A i \in DOMAIN narration[1].log :
    LET e == narration[1].log[i] IN
    e.op = "edit" =>
      /\ e.target \in DOMAIN narration[1].displayed
      /\ SplitsBefore(i) # {} => e.target = narration[1].log[LastSplit(i)].target

\* The step invokes a tool call in the turn of task 1.
Invokes == calls'[1].tool = calls[1].tool + 1

\* The reports the step adds to the log, in order.
NewReports ==
  SubSeq(narration'[1].log, Len(narration[1].log) + 1, Len(narration'[1].log))

\* C24: a step that invokes a tool call reports its invocation line and,
\* after it, a line with its outcome, whether the call succeeded or failed.
C24_InvocationAndOutcomeReported ==
  [][Invokes =>
       \E i, j \in DOMAIN NewReports :
         /\ i < j
         /\ NewReports[i].line.kind = "call"
         /\ NewReports[i].line.id = calls'[1].ids
         /\ NewReports[j].line.kind = "result"
         /\ NewReports[j].line.id = calls'[1].ids]_vars

\* The step is the one tool call of the ticket scenario: the first response
\* of the turn asks for one read-only call, and the backend answers it with
\* the payload of TicketLen characters.
TicketCall ==
  /\ pc[1] = "tools" /\ currentRound[1] = 0 /\ toolIdx[1] = 1
  /\ Len(response[1].ToolCalls) = 1
  /\ Invokes
  /\ pc'[1] = "tools"
  /\ messages'[1][Len(messages'[1])].text = ToolText(TicketLen)

\* The step is the model's completion after that call.
TicketCompletion ==
  /\ pc[1] = "loop" /\ calls[1].tool = 1 /\ calls[1].chat = 1
  /\ messages[1][Len(messages[1])].text = ToolText(TicketLen)
  /\ result'[1].state = "Complete"

\* The tool messages of window m.
ToolResults(m) == { i \in DOMAIN m : m[i].role = "tool" }

\* What the ticket scenario does apart from the narration: no auxiliary
\* model call, one tool message in the window, completion in round 1.
TicketOutcome ==
  /\ TicketCall =>
       /\ calls'[1].aux = calls[1].aux
       /\ Cardinality(ToolResults(messages'[1])) = Cardinality(ToolResults(messages[1])) + 1
  /\ TicketCompletion => currentRound[1] = 1 /\ narration'[1] = narration[1]

\* C25 as stated: in the ticket scenario the summarizer is bypassed, one
\* tool message is appended, the loop completes in round 1, and the call
\* reports exactly one progress line.
C25_TicketScenarioOneLine ==
  [][/\ TicketOutcome
     /\ TicketCall => Len(NewReports) = 1]_vars

\* C25, amended: the call reports two progress lines, its invocation and its
\* result, both as edits of the one progress message.
C25_TicketScenario ==
  [][/\ TicketOutcome
     /\ TicketCall =>
          /\ Len(NewReports) = 2
          /\ NewReports[1].line.kind = "call" /\ NewReports[1].op = "edit"
          /\ NewReports[2].line.kind = "result" /\ NewReports[2].op = "edit"
          /\ Len(narration'[1].displayed) = Len(narration[1].displayed)]_vars

C25_Witness ==
  /\ result[1].state = "Complete" /\ currentRound[1] = 1
  /\ calls[1].tool = 1 /\ calls[1].chat = 2 /\ calls[1].aux = 0
  /\ Len(narration[1].log) = 3
  /\ narration[1].log[3].line = Line("result", 1, TitleLen + 3 + TicketLen)

\* -------------------------------------------------------------- credentials
\* The acting user of the turn of task 1 has stored no personal token.
NoStoredToken == userID[1] # "" /\ StoredToken(userID[1]) = "absent"

\* C26: a turn of a user without a stored token is not failed for it: it
\* goes on to the gateway without a token, where it gets the default client.
C26_NoTokenIsNotAnError ==
  NoStoredToken =>
    /\ result[1].err # "token"
    /\ pc[1] \in {"getMcpClient", "loop", "tools"} => userToken[1] = ""

\* ------------------------------------------------------------- sequencing
\* Role and tool call id of the last n messages of window m.
TailIds(m, n) == [i \in 1 .. n |-> << m[Len(m) - n + i].role, m[Len(m) - n + i].id >>]

\* The invocation and the tool message of the first k tool calls of tcs, in
\* the order of tcs.
InOrder(tcs, k) ==
  [i \in 1 .. 2 * k |-> << IF i % 2 = 1 THEN "assistant" ELSE "tool",
                           tcs[(i + 1) \div 2].ID >>]

\* C27: the tool calls of a response are invoked one at a time in the order
\* the model asked for them: a step invokes at most one call, the one the
\* loop stands at; while the response is processed the window ends with the
\* invocation and tool message of each call handled so far, in that order;
\* and the model is called again only from the loop head, after the tool
\* message of the last call invoked.
C27_ToolCallsInSequence ==
  /\ [](pc[1] = "tools" =>
         LET k == toolIdx[1] - 1 IN
         /\ k <= Len(response[1].ToolCalls)
         /\ Len(messages[1]) >= 2 * k
         /\ TailIds(messages[1], 2 * k) = InOrder(response[1].ToolCalls, k))
  /\ [][/\ calls'[1].tool \in {calls[1].tool, calls[1].tool + 1}
        /\ Invokes =>
             /\ pc[1] = "tools"
             /\ calls'[1].ids = response[1].ToolCalls[toolIdx[1]].ID
        /\ pc[1] = "tools" /\ pc'[1] = "loop" =>
             toolIdx[1] = Len(response[1].ToolCalls) + 1
        /\ calls'[1].chat > calls[1].chat =>
             /\ pc[1] = "loop"
             /\ calls[1].tool > 0 =>
                  TailIds(messages[1], 1) = << << "tool", calls[1].ids >> >>
       ]_vars

\* Witness: both tool calls of a response have been handled, in order, and
\* the turn is back at the loop head.
C27_Witness ==
  /\ pc[1] = "loop" /\ currentRound[1] = 1 /\ calls[1].tool = 2
  /\ TailIds(messages[1], 4) =
       << << "assistant", 1 >>, << "tool", 1 >>, << "assistant", 2 >>, << "tool", 2 >> >>

\* --------------------------------------------------------------- deadline
\* The step is the handshake of the per-user client of the turn of task 1.
Handshakes == pc[1] = "initUser" /\ (pc'[1] # "initUser" \/ ~alive')

\* The step makes a downstream call of the turn of task 1: ListTools, the
\* model call, a tool call or the handshake.
CallsDownstream ==
  \/ calls'[1].list > calls[1].list
  \/ calls'[1].chat > calls[1].chat
  \/ Invokes
  \/ Handshakes

\* C28: a downstream call made after the turn's deadline has expired is
\* aborted, and the turn ends there as a failed turn.
C28_DeadlineEndsTurn ==
  [][Expired(1) /\ CallsDownstream =>
       /\ alive'
       /\ pc'[1] = "done"
       /\ result'[1].state = "Failed"
       /\ result'[1].err \notin {"nil", "panic"}]_vars

\* ---------------------------------------------------------------- logging
\* C29: no error is dropped: when a turn has ended, an error record has been
\* logged for every error its calls returned.
C29_EveryErrorLogged ==
  \A t \in Tasks : pc[t] = "done" => errlog[t].logged >= errlog[t].errors

\* ------------------------------------------------------- sharing across turns
\* Client c is a per-user client.
PerUser(cs, c) == c # 0 /\ cs[c].token # "default"

\* C30: turns share no client but the default one, and no window.  Two tasks
\* never hold the same per-user client; a per-user client is handed to a turn
\* only when it has just been created, for that turn's token; and a step
\* that changes the window or the progress lines of one task leaves those of
\* every other task as they are.
C30_OnlyDefaultClientShared ==
  /\ [](\A t, u \in Tasks :
         t # u /\ mcpClient[t] = mcpClient[u] => ~PerUser(clients, mcpClient[t]))
  /\ [][\A t \in Tasks :
         /\ mcpClient'[t] # mcpClient[t] /\ PerUser(clients', mcpClient'[t]) =>
              /\ mcpClient'[t] \notin DOMAIN clients
              /\ clients'[mcpClient'[t]].token = userToken[t]
         /\ messages'[t] # messages[t] \/ narration'[t] # narration[t] =>
              \A u \in Tasks \ {t} :
                messages'[u] = messages[u] /\ narration'[u] = narration[u]
       ]_vars

\* Witness: two turns of the same user run at once, each on its own ready
\* per-user client and with its own window.
C30_Witness ==
  /\ pc[1] = "loop" /\ pc[2] = "loop"
  /\ userToken[1] = "tok1" /\ userToken[2] = "tok1"
  /\ mcpClient[1] # mcpClient[2]
  /\ clients[mcpClient[1]].state = "ready" /\ clients[mcpClient[2]].state = "ready"
  /\ messages[1] # << >> /\ messages[2] # << >>

\* C31: the Lambda handleRequest answers an event callback whose event
\* handling returned no error (a message event HandleEvent accepted, or an
\* inner event it is not called for) with status 200 and the body "ok".
C31_CallbackAnswersOk ==
  (/\ applied.fn = "handleRequest"
   /\ applied.done
   /\ applied.in.Body = "event_callback"
   /\ (applied.in.inner = "message" => applied.out.handled = "nil"))
    => /\ applied.out.StatusCode = 200
       /\ applied.out.Body = "ok"

\* The request of the handler's test: a user's message event outside a
\* thread, handled without an error.
C31_Witness ==
  /\ applied.fn = "handleRequest"
  /\ applied.done
  /\ applied.in.Body = "event_callback"
  /\ applied.in.inner = "message"
  /\ applied.in.event.BotID = ""
  /\ applied.out.handled = "nil"
  /\ applied.out.StatusCode = 200


\* C32: every failure of the chat API while posting or editing the progress
\* message is logged, and the turn goes on as if it had been delivered: of
\* two turns told the same payloads and answers, one with a failing chat API
\* and one with every post and edit delivered, the second can always take the
\* step the first took, and is then at the same position with the same model
\* calls, tool calls, final posts and result.
C32_TransportFailureIsInert ==
  /\ [](\A t \in Tasks : narration[t].logged = narration[t].failed)
  /\ [][~InStep => Course(2)' = Course(1)']_vars
  /\ (~InStep ~> InStep)

\* Both turns have ended with the partial answer of the last round, and a
\* post or edit of the first one had failed.
C32_Witness ==
  /\ InStep
  /\ narration[1].failed > 0
  /\ narration[2].failed = 0
  /\ Len(narration[1].log) > 0
  /\ pc[1] = "done"
  /\ result[1].state = "MaxRoundsReached"


\* The entries of history h that the builder keeps, in their order.
Kept(h) == SelectSeq(h, LAMBDA e : e.Role \in {"user", "assistant"})

\* C33: the initial window is the system prompt, then the history entries of
\* role "user" and "assistant" in their original order, each with its role
\* and its content (entries of any other role are left out), then the new
\* user message, last.
C33_InitialWindow ==
  (applied.fn = "createInitialMessages" /\ applied.done) =>
    LET out == applied.out
        kept == Kept(applied.in)
    IN  /\ Len(out) = Len(kept) + 2
        /\ out[1].role = "system"
        /\ \A i \in DOMAIN kept :
             /\ out[i + 1].role = kept[i].Role
             /\ out[i + 1].text = kept[i].Content
        /\ out[Len(out)].role = "user"
        /\ out[Len(out)].text = Said(0)

\* A history with a user entry, an entry of another role and an assistant
\* entry has been turned into a window of four messages.
C33_Witness ==
  /\ applied.fn = "createInitialMessages"
  /\ applied.done
  /\ Len(applied.in) = 3
  /\ applied.in[1].Role = "user"
  /\ applied.in[2].Role = "system"
  /\ applied.in[3].Role = "assistant"
  /\ applied.in[1].Content # applied.in[3].Content
  /\ Len(applied.out) = 4


Paired(m) ==
  \A i \in DOMAIN m :
    m[i].role = "tool" =>
      \E j \in 1 .. i - 1 : m[j].role = "assistant" /\ m[j].id = m[i].id

\* C35: in every window sent to the model, every tool message is preceded
\* by the assistant tool-call message with the same call id, after any
\* number of rounds and trims.
C35_ToolMessagesPaired ==
  [][\A t \in Tasks :
       calls'[t].chat = calls[t].chat + 1 => Paired(ModelWindow(messages[t]))
    ]_vars

\* The model has been called, and has asked for more tools, with a window
\* whose trim dropped the user's query and the first tool calls of the turn.
C35_Witness ==
  /\ pc[1] = "tools"
  /\ toolIdx[1] = 1
  /\ Len(messages[1]) = maxMessages
  /\ messages[1][2].role = "assistant"
  /\ messages[1][2].id > 1
  /\ messages[1][3].role = "tool"


\* C36: the text of every in-place edit of the progress message is at most
\* maxMessageLength (40,000) characters long, whichever kind of line (model
\* content, tool invocation, tool result) led to the edit.
C36_EditsWithinCeiling ==
  \A e \in Reports : e.op = "edit" => JoinLen(e.text) <= maxMessageLength

\* The turns that hold client c and have not left runConversationLoop.
Holders(c) ==
  { t \in Tasks : mcpClient[t] = c /\ pc[t] \in {"initUser", "loop", "tools"} }

\* C37: every per-user client getMcpClient has created is closed once no
\* running turn holds it any more: getMcpClient closes the client whose
\* handshake fails, the turn's cleanup closes the one it was handed, and no
\* exit of either (the end of the process included) leaves one open.
C37_EveryUserClientClosed ==
  \A c \in DOMAIN clients :
    (clients[c].token # "default" /\ (Holders(c) = {} \/ ~alive))
      => clients[c].state = "closed"


\* A step in which the chain has served the request at the door.
Served == applied.fn = "ServeHTTP" /\ ~applied.done /\ applied'.done

\* The request at the door is an event callback with a message event.
MessageDelivered ==
  applied.in.Body = "event_callback" /\ applied.in.event.inner = "message"

\* The events the claim calls written by a bot.
WrittenByBot(ev) ==
  ev.BotID # "" \/ ev.SubType \in {"bot_message", "message_changed"}

\* C38: a message event written by a bot (BotID set, or subtype bot_message
\* or message_changed) never starts a turn: serving it posts no message and
\* makes no model call and no tool call; no task leaves its place.
C38_BotMessagesStartNoTurn ==
  [][(Served /\ MessageDelivered /\ WrittenByBot(applied.in.event))
       => UNCHANGED << pc, turns, turnVars >>]_vars

\* A first delivery of a message with subtype message_changed and no BotID,
\* sent in a direct message, has been served and answered {"status":"ok"}
\* while no turn was running.
C38_Witness ==
  /\ applied.fn = "ServeHTTP"
  /\ applied.done
  /\ applied.in.retryNum = ""
  /\ applied.in.Body = "event_callback"
  /\ applied.in.event.inner = "message"
  /\ applied.in.event.BotID = ""
  /\ applied.in.event.SubType = "message_changed"
  /\ applied.in.event.ChannelType = "im"
  /\ applied.out.Body = "status: ok"
  /\ \A t \in Tasks : pc[t] = "idle"

\* C39: a request that carries X-Slack-Retry-Num is answered with status 200
\* in the middleware and goes no further: it reaches no event handler, so it
\* starts no turn, posts nothing and calls nothing.
C39_RetriesAreSkipped ==
  [][(Served /\ applied.in.retryNum # "")
       => /\ applied'.out.StatusCode = 200
          /\ applied'.out.Body = "ok (retry skipped)"
          /\ ~applied'.out.next
          /\ UNCHANGED << pc, turns, turnVars >>]_vars

\* The redelivery of a user's direct message has been skipped while the
\* turn of its first delivery was still running: one turn, no second one.
C39_Witness ==
  /\ applied.fn = "ServeHTTP"
  /\ applied.done
  /\ applied.in.retryNum # ""
  /\ applied.in.Body = "event_callback"
  /\ applied.in.event.inner = "message"
  /\ ~WrittenByBot(applied.in.event)
  /\ applied.in.event.ChannelType = "im"
  /\ applied.out.Body = "ok (retry skipped)"
  /\ \E t \in Tasks : pc[t] = "loop"
  /\ \E t \in Tasks : pc[t] = "idle" /\ turns[t] = 0

====
